---- MODULE Spec2Model ----
(***************************************************************************)
(* Candle store, stream ingestor and subscription registry of the backend  *)
(* (backend/app/redis_store.py, binance_ws.py, ws_broadcast.py, utils.py). *)
(*                                                                         *)
(* Strings are sequences of one-character strings, so that strip(),        *)
(* upper() and lower() are computed and not assumed.  A candle is a record *)
(* [time, close, is_closed]; close stands for the OHLCV payload and        *)
(* is_closed is "True" or "False", or "absent" for a candle built from a   *)
(* REST row (the dict has no such key).  Candle times are Python ints      *)
(* (int(k["t"]) // 1000 and k[0] // 1000), so the isinstance(t, float)     *)
(* branches of append_candle are never taken.                              *)
(***************************************************************************)
EXTENDS Integers, Sequences, FiniteSets, TLC

VARIABLES
    useMemory,      \* config.USE_MEMORY_STORE, fixed at startup
    memory_store,   \* redis_store._memory_store: key -> list of candles
    redis_db,       \* the external cache: key -> JSON text
    cl,             \* store callers: where each is inside append_candle
    last,           \* the store call that has just returned: arguments and result
    inserted,       \* per key, the candles upserted since the Series was empty
    tainted,        \* keys whose history is not "distinct upserts from empty"
    track,          \* which bookkeeping a run keeps: "ops" (last) or "history"
    script,         \* the two concurrent callers: the Series they start from,
                    \* each one's candle and how far its call has come
    subscribers,    \* ws_broadcast._subscribers: (symbol, interval) -> connections
    connection_subs,\* ws_broadcast._connection_subs: connection -> keys
    bc,             \* the broadcast_candle call in progress, with what it saw
    intent,         \* per connection: the keys it has asked for, and whether
                    \* a set_subscriptions of it has returned
    lastSend,       \* the send_text that has just begun
    ing,            \* run_binance_ws: where it is in the message it handles
    clock,          \* the exchange: the number of the bucket now open
    heap,           \* the list objects alive in the process: identity -> items
    store_ref,      \* which list object _memory_store holds under each key
    held,           \* the list object a reader got from get_candles, and its
                    \* items when it was returned
    lastMsg,        \* the client message the server has just processed
    upstream,       \* the upstream websocket connections now open
    shutdown,       \* has the lifespan cancelled the stream task?
    lastIn,         \* the upstream message the loop has just taken
    lock,           \* ws_broadcast._lock: Free, or who holds it and for what
    probe,          \* two spellings of a (symbol, interval) pair and their keys
    proposal_subscribers,      \* ws_broadcast._proposal_subscribers
    proposal_connection_subs,  \* ws_broadcast._proposal_connection_subs
    pbc,            \* the broadcast_candle_proposal call in progress
    pw              \* websocket_proposal: the handler of a /ws/{symbol} client

storeVars == <<useMemory, memory_store, redis_db, cl, last, inserted, tainted, track,
               script>>
regVars == <<subscribers, connection_subs, bc, intent, lastSend>>
ingVars == <<ing, clock>>
propVars == <<proposal_subscribers, proposal_connection_subs, pbc, pw>>
auxVars == <<heap, store_ref, held, lastMsg, upstream, shutdown, lastIn, lock, probe,
             propVars>>
vars == <<storeVars, regVars, ingVars, auxVars>>

----------------------------------------------------------------------------
(* Bounds of the model.                                                    *)

\* config.BUFFER_SIZE is 1000; the model keeps the code and scales the capacity.
BUFFER_SIZE == 4
\* Upserts go up to MaxEvict distinct times beyond the capacity.
MaxEvict == 2
\* Largest limit passed to get_candles.
MaxLimit == 5
\* The klines requests ask for "limit": 1000 rows; the model scales the cap.
RestLimit == 2
\* The exchange opens buckets 1..MaxBucket.
MaxBucket == 5

----------------------------------------------------------------------------
(* utils.py                                                                *)

Max(a, b) == IF a >= b THEN a ELSE b
Min(a, b) == IF a <= b THEN a ELSE b

upper_char(c) ==
    CASE c = "b" -> "B" [] c = "t" -> "T" [] c = "c" -> "C"
      [] c = "e" -> "E" [] c = "h" -> "H" [] c = "m" -> "M"
      [] c = "d" -> "D" [] OTHER -> c

lower_char(c) ==
    CASE c = "B" -> "b" [] c = "T" -> "t" [] c = "C" -> "c"
      [] c = "E" -> "e" [] c = "H" -> "h" [] c = "M" -> "m"
      [] c = "D" -> "d" [] OTHER -> c

str_upper(s) == [i \in 1..Len(s) |-> upper_char(s[i])]
str_lower(s) == [i \in 1..Len(s) |-> lower_char(s[i])]

RECURSIVE str_lstrip(_)
str_lstrip(s) == IF s # <<>> /\ Head(s) = " " THEN str_lstrip(Tail(s)) ELSE s

RECURSIVE str_rstrip(_)
str_rstrip(s) ==
    IF s # <<>> /\ s[Len(s)] = " " THEN str_rstrip(SubSeq(s, 1, Len(s) - 1)) ELSE s

str_strip(s) == str_rstrip(str_lstrip(s))

normalize_symbol(symbol) == str_upper(str_strip(symbol))

normalize_interval(interval) ==
    IF interval = <<>> THEN <<"1", "m">>
    ELSE LET iv == str_strip(interval)
         IN  IF str_upper(iv) = <<"1", "D">> THEN <<"1", "d">> ELSE str_lower(iv)

build_candle_key(symbol, interval) ==
    <<"candles:">> \o normalize_symbol(symbol) \o <<":">> \o normalize_interval(interval)

----------------------------------------------------------------------------
(* Python lists and dicts.                                                 *)

\* s[start:]
PySliceFrom(s, start) ==
    LET n  == Len(s)
        lo == IF start < 0 THEN Max(n + start, 0) ELSE Min(start, n)
    IN  SubSeq(s, lo + 1, n)

\* One step of the stable sort: x goes after every element whose key is <= its own.
InsertByTime(s, x) ==
    LET k == Cardinality({i \in 1..Len(s) : s[i].time <= x.time})
    IN  SubSeq(s, 1, k) \o <<x>> \o SubSeq(s, k + 1, Len(s))

\* list.sort(key=lambda x: x.get("time", 0)): stable, ascending.
RECURSIVE list_sort(_)
list_sort(s) ==
    IF s = <<>> THEN <<>>
    ELSE InsertByTime(list_sort(SubSeq(s, 1, Len(s) - 1)), s[Len(s)])

\* d[k] = v
DictPut(d, k, v) == [x \in (DOMAIN d) \cup {k} |-> IF x = k THEN v ELSE d[x]]

EmptyDict == <<>>

\* json.dumps of a candle dict: its members in insertion order; a Python bool
\* becomes the token true or false, a missing key gives no member.
json_dumps_object(c) ==
    <<<<"time", c.time>>, <<"close", c.close>>>>
    \o (IF c.is_closed = "absent" THEN <<>>
        ELSE <<<<"is_closed", IF c.is_closed = "True" THEN "true" ELSE "false">>>>)

\* json.loads of an object: the dict with the members' names and values.
json_loads_object(o) ==
    LET member(name) == CHOOSE i \in 1..Len(o) : o[i][1] = name
        has(name)    == \E i \in 1..Len(o) : o[i][1] = name
    IN  [time      |-> o[member("time")][2],
         close     |-> o[member("close")][2],
         is_closed |-> IF ~has("is_closed") THEN "absent"
                       ELSE IF o[member("is_closed")][2] = "true" THEN "True"
                       ELSE "False"]

\* Mutant of json_loads: the parsed candles lose their is_closed member.
json_loads_NoClosed(raw) ==
    [i \in 1..Len(raw.items) |->
        [json_loads_object(raw.items[i]) EXCEPT !.is_closed = "absent"]]

\* json.dumps / json.loads of a list of candles.
json_dumps(data) ==
    [json |-> "array", items |-> [i \in 1..Len(data) |-> json_dumps_object(data[i])]]

json_loads(raw) == [i \in 1..Len(raw.items) |-> json_loads_object(raw.items[i])]

----------------------------------------------------------------------------
(* redis_store.py                                                          *)

\* Mutants of UpsertList: no sort after the append; an append whether or not
\* the time is already there; eviction of the newest instead of the oldest.
UpsertList_NoSort(data, candle) ==
    LET hits == {i \in 1..Len(data) : data[i].time = candle.time}
    IN  IF hits # {}
        THEN LET i == CHOOSE j \in hits : \A h \in hits : j <= h
             IN  [data EXCEPT ![i] = candle]
        ELSE LET s == Append(data, candle)
             IN  IF Len(s) > BUFFER_SIZE THEN PySliceFrom(s, -BUFFER_SIZE) ELSE s

UpsertList_AlwaysAppend(data, candle) ==
    LET s == list_sort(Append(data, candle))
    IN  IF Len(s) > BUFFER_SIZE THEN PySliceFrom(s, -BUFFER_SIZE) ELSE s

UpsertList_EvictNewest(data, candle) ==
    LET hits == {i \in 1..Len(data) : data[i].time = candle.time}
    IN  IF hits # {}
        THEN LET i == CHOOSE j \in hits : \A h \in hits : j <= h
             IN  [data EXCEPT ![i] = candle]
        ELSE LET s == list_sort(Append(data, candle))
             IN  IF Len(s) > BUFFER_SIZE THEN SubSeq(s, 1, BUFFER_SIZE) ELSE s

\* append_candle, lines 88-104 (and 115-131): the list the call writes back.
UpsertList(data, candle) ==
    LET hits == {i \in 1..Len(data) : data[i].time = candle.time}
    IN  IF hits # {}
        THEN LET i == CHOOSE j \in hits : \A h \in hits : j <= h
             IN  [data EXCEPT ![i] = candle]
        ELSE LET s == list_sort(Append(data, candle))
             IN  IF Len(s) > BUFFER_SIZE THEN PySliceFrom(s, -BUFFER_SIZE) ELSE s

\* get_candles, lines 49-52 (and 66-69).
LastCandles(data, limit) ==
    IF Len(data) > limit THEN PySliceFrom(data, -limit) ELSE data

\* Mutant of TruncatedList: the head of the list is kept, not its tail.
TruncatedList_KeepOldest(candles) ==
    IF Len(candles) > BUFFER_SIZE THEN SubSeq(candles, 1, BUFFER_SIZE) ELSE candles

\* set_candles, lines 145 and 149-150.
TruncatedList(candles) ==
    IF Len(candles) > BUFFER_SIZE THEN PySliceFrom(candles, -BUFFER_SIZE) ELSE candles

\* The Series of a key as a reader sees it on the configured backend.
Series(key) ==
    IF useMemory
    THEN IF key \in DOMAIN memory_store THEN memory_store[key] ELSE <<>>
    ELSE IF key \in DOMAIN redis_db THEN json_loads(redis_db[key]) ELSE <<>>

StoreKeys == IF useMemory THEN DOMAIN memory_store ELSE DOMAIN redis_db

Idle == [pc |-> "idle"]

\* Bookkeeping of the upserts a key has seen since its Series was empty.
NoteUpsert(key, candle) ==
    IF track # "history" \/ key \in tainted THEN UNCHANGED <<inserted, tainted>>
    ELSE IF \E p \in inserted : p[1] = key /\ p[2].time = candle.time
    THEN /\ tainted' = tainted \cup {key}
         /\ inserted' = {p \in inserted : p[1] # key}
    ELSE /\ inserted' = inserted \cup {<<key, candle>>}
         /\ UNCHANGED tainted

\* Bookkeeping of a wholesale replacement.
NoteReplace(key, candles) ==
    IF track # "history" THEN UNCHANGED <<inserted, tainted>>
    ELSE /\ inserted' = {p \in inserted : p[1] # key}
         /\ tainted' = IF candles = <<>> THEN tainted \ {key} ELSE tainted \cup {key}

\* Mutant of OnRedisError: the exception leaves the call.
OnRedisError_Raises(r) == [r EXCEPT !.op = "raised"]

\* "except Exception as e: logger.warning(...)": the call whose Redis request
\* raised returns like any other.
OnRedisError(r) == r

\* Bookkeeping of the call that has just returned.
NoteCall(r) == last' = IF track \in {"ops", "ingest"} THEN r ELSE last

\* append_candle on the in-memory backend: no suspension point, one step.
append_candle_memory(t, symbol, interval, candle) ==
    LET key  == build_candle_key(symbol, interval)
        data == IF key \in DOMAIN memory_store THEN memory_store[key] ELSE <<>>
    IN  /\ useMemory
        /\ cl[t].pc = "idle"
        /\ memory_store' = DictPut(memory_store, key, UpsertList(data, candle))
        /\ NoteCall([op |-> "append_candle", key |-> key, candle |-> candle,
                    before |-> data, ok |-> TRUE])
        /\ NoteUpsert(key, candle)
        /\ UNCHANGED <<useMemory, redis_db, cl, track>>

\* append_candle on Redis up to "raw = await r.get(key)"; the request may fail.
append_candle_get(t, symbol, interval, candle) ==
    LET key == build_candle_key(symbol, interval)
    IN  /\ ~useMemory
        /\ cl[t].pc = "idle"
        /\ \/ /\ cl' = [cl EXCEPT ![t] =
                          [pc |-> "append_set", key |-> key, candle |-> candle,
                           data |-> IF key \in DOMAIN redis_db
                                    THEN json_loads(redis_db[key]) ELSE <<>>]]
              /\ NoteCall([op |-> "none"])
           \/ /\ NoteCall(OnRedisError([op |-> "append_candle", key |-> key,
                                       candle |-> candle, before |-> Series(key),
                                       ok |-> FALSE]))
              /\ UNCHANGED cl
        /\ UNCHANGED <<useMemory, memory_store, redis_db, inserted, tainted, track>>

\* append_candle on Redis from the list computation to "await r.set(...)".
append_candle_set(t) ==
    LET key    == cl[t].key
        candle == cl[t].candle
    IN  /\ cl[t].pc = "append_set"
        /\ cl' = [cl EXCEPT ![t] = Idle]
        /\ \/ /\ redis_db' = DictPut(redis_db, key,
                                     json_dumps(UpsertList(cl[t].data, candle)))
              /\ NoteCall([op |-> "append_candle", key |-> key, candle |-> candle,
                          before |-> cl[t].data, ok |-> TRUE])
              /\ NoteUpsert(key, candle)
           \/ /\ NoteCall(OnRedisError([op |-> "append_candle", key |-> key,
                                       candle |-> candle, before |-> cl[t].data,
                                       ok |-> FALSE]))
              /\ UNCHANGED <<redis_db, inserted, tainted>>
        /\ UNCHANGED <<useMemory, memory_store, track>>

\* set_candles: one write on either backend; the Redis write may fail.
set_candles(symbol, interval, candles) ==
    LET key == build_candle_key(symbol, interval)
    IN  /\ \/ /\ useMemory
              /\ memory_store' = DictPut(memory_store, key, TruncatedList(candles))
              /\ NoteCall([op |-> "set_candles", key |-> key, candles |-> candles,
                          ok |-> TRUE])
              /\ NoteReplace(key, candles)
              /\ UNCHANGED redis_db
           \/ /\ ~useMemory
              /\ redis_db' = DictPut(redis_db, key, json_dumps(TruncatedList(candles)))
              /\ NoteCall([op |-> "set_candles", key |-> key, candles |-> candles,
                          ok |-> TRUE])
              /\ NoteReplace(key, candles)
              /\ UNCHANGED memory_store
           \/ /\ ~useMemory
              /\ NoteCall(OnRedisError([op |-> "set_candles", key |-> key,
                                       candles |-> candles, ok |-> FALSE]))
              /\ UNCHANGED <<memory_store, redis_db, inserted, tainted>>
        /\ UNCHANGED <<useMemory, cl, track>>

\* get_candles: one read on either backend; a failed Redis read returns [].
get_candles(symbol, interval, limit) ==
    LET key == build_candle_key(symbol, interval)
    IN  /\ \/ /\ useMemory
              /\ NoteCall([op |-> "get_candles", key |-> key, limit |-> limit,
                          ok |-> TRUE,
                          result |-> IF key \in DOMAIN memory_store
                                     THEN LastCandles(memory_store[key], limit)
                                     ELSE <<>>])
           \/ /\ ~useMemory
              /\ NoteCall([op |-> "get_candles", key |-> key, limit |-> limit,
                          ok |-> TRUE,
                          result |-> IF key \in DOMAIN redis_db
                                     THEN LastCandles(json_loads(redis_db[key]), limit)
                                     ELSE <<>>])
           \/ /\ ~useMemory
              /\ NoteCall(OnRedisError([op |-> "get_candles", key |-> key,
                                       limit |-> limit, ok |-> FALSE,
                                       result |-> <<>>]))
        /\ UNCHANGED <<useMemory, memory_store, redis_db, cl, inserted, tainted, track>>

----------------------------------------------------------------------------
(* The store under one caller: a Series built by history-shaped lists and  *)
(* by upserts.  Each operation spells the same (symbol, interval) pair its *)
(* own way.  SpecSeries keeps the last call (two payloads per time, so a   *)
(* replacement shows); SpecEvict keeps the upsert history (more times, so  *)
(* more than one candle is evicted).                                       *)

Candle(t, c) == [time |-> t, close |-> c, is_closed |-> "absent"]

SeriesCandles ==
    IF track = "ops"
    THEN {Candle(t, c) : t \in 1..(BUFFER_SIZE + 1), c \in 1..2}
    ELSE {Candle(t, 1) : t \in 1..(BUFFER_SIZE + MaxEvict)}

\* What the history endpoint returns: consecutive buckets a..b, ascending.
Run(a, b) == [i \in 1..(b - a + 1) |-> Candle(a + i - 1, 1)]
HistoryLists == {Run(a, b) : a \in 1..(BUFFER_SIZE + 1), b \in 0..(BUFFER_SIZE + 1)}

BTC1m == build_candle_key(<<"B", "T", "C">>, <<"1", "m">>)

NoScript == [init |-> <<>>, calls |-> <<>>]

Conns == {"w1", "w2"}

NoIntent == [replaced |-> FALSE, keys |-> {}]

\* ws_broadcast.py, lines 19-23: both maps empty, no broadcast running.
InitRegistry ==
    /\ subscribers = EmptyDict
    /\ connection_subs = EmptyDict
    /\ bc = [pc |-> "idle"]
    /\ intent = [c \in Conns |-> NoIntent]
    /\ lastSend = [op |-> "none"]

\* ws_broadcast._lock = asyncio.Lock(): nobody holds it.
Free == [by |-> "nobody"]

\* The ingestor has not started; the exchange has its first bucket open.
InitIngestor ==
    /\ ing = [pc |-> "startup"]
    /\ clock = 1

\* No list object yet, no reader, no client message, no upstream connection.
InitAux ==
    /\ heap = EmptyDict
    /\ store_ref = EmptyDict
    /\ held = [id |-> 0]
    /\ lastMsg = [op |-> "none"]
    /\ upstream = 0
    /\ shutdown = FALSE
    /\ lock = Free
    /\ probe = [op |-> "none"]
    /\ lastIn = [op |-> "none"]
    /\ proposal_subscribers = [k \in {} |-> {}]
    /\ proposal_connection_subs = [k \in {} |-> {}]
    /\ pbc = [pc |-> "idle"]
    /\ pw = [pc |-> "closed"]

InitStore ==
    /\ InitRegistry
    /\ InitIngestor
    /\ InitAux
    /\ useMemory \in BOOLEAN
    /\ memory_store = EmptyDict
    /\ redis_db = EmptyDict
    /\ last = [op |-> "none"]
    /\ inserted = {}
    /\ tainted = {}

InitSeries ==
    /\ InitStore
    /\ track = "ops"
    /\ cl = [t \in {"c1"} |-> Idle]
    /\ script = NoScript

InitEvict ==
    /\ InitStore
    /\ track = "history"
    /\ cl = [t \in {"c1"} |-> Idle]
    /\ script = NoScript

AppendMemory ==
    /\ \E c \in SeriesCandles :
          append_candle_memory("c1", <<" ", "B", "t", "c", " ">>, <<"1", "M", " ">>, c)
    /\ UNCHANGED <<script, regVars, ingVars, auxVars>>

AppendGet ==
    /\ \E c \in SeriesCandles :
          append_candle_get("c1", <<" ", "B", "t", "c", " ">>, <<"1", "M", " ">>, c)
    /\ UNCHANGED <<script, regVars, ingVars, auxVars>>

AppendSet == append_candle_set("c1") /\ UNCHANGED <<script, regVars, ingVars, auxVars>>

\* The one caller makes its next call when the previous one has returned.
SetHistory ==
    /\ cl["c1"].pc = "idle"
    /\ \E l \in HistoryLists : set_candles(<<"b", "t", "c">>, <<>>, l)
    /\ UNCHANGED <<script, regVars, ingVars, auxVars>>

GetLast ==
    /\ cl["c1"].pc = "idle"
    /\ \E n \in 0..MaxLimit : get_candles(<<"B", "T", "C">>, <<"1", "m">>, n)
    /\ UNCHANGED <<script, regVars, ingVars, auxVars>>

NextSeries == AppendMemory \/ AppendGet \/ AppendSet \/ SetHistory \/ GetLast

SpecSeries == InitSeries /\ [][NextSeries]_vars

SpecEvict == InitEvict /\ [][NextSeries]_vars

----------------------------------------------------------------------------
(* The Series invariant and the store's contract under one caller.         *)

StrictlyIncreasing(s) == \A i \in 1..(Len(s) - 1) : s[i].time < s[i + 1].time

\* C1: from an empty Series, after any sequence of upserts (here also after
\* replacements by lists in history order), the stored times of every key are
\* strictly increasing, hence pairwise distinct.
C1_UpsertsKeepTimesIncreasing ==
    \A key \in StoreKeys :
        /\ StrictlyIncreasing(Series(key))
        /\ \A i, j \in 1..Len(Series(key)) :
              i # j => Series(key)[i].time # Series(key)[j].time

\* C1 witness: a full Series whose last upsert went in front of later times.
C1_Witness ==
    /\ last.op = "append_candle" /\ last.ok
    /\ Len(last.before) = BUFFER_SIZE
    /\ last.candle.time > last.before[1].time
    /\ last.candle.time < last.before[2].time
    /\ Series(last.key)[1] = last.candle

\* The candles upserted into key since its Series was empty.
Upserted(key) == {p[2] : p \in {q \in inserted : q[1] = key}}

\* C2: no Series is longer than BUFFER_SIZE, and a Series that was empty and
\* has since taken upserts with pairwise distinct times holds exactly the
\* BUFFER_SIZE upserted candles with the largest times.
C2_CapacityKeepsNewest ==
    /\ \A key \in StoreKeys : Len(Series(key)) <= BUFFER_SIZE
    /\ \A key \in {BTC1m} \ tainted :
          LET ups  == Upserted(key)
              kept == {c \in ups :
                         Cardinality({d \in ups : d.time > c.time}) < BUFFER_SIZE}
          IN  track = "history" =>
                /\ {Series(key)[i] : i \in 1..Len(Series(key))} = kept
                /\ Len(Series(key)) = Cardinality(kept)

\* C2 witness: BUFFER_SIZE + 2 distinct times upserted, the two oldest gone,
\* the oldest of them upserted last.
C2_Witness ==
    /\ track = "history" /\ BTC1m \notin tainted
    /\ Cardinality(Upserted(BTC1m)) = BUFFER_SIZE + 2
    /\ Len(Series(BTC1m)) = BUFFER_SIZE
    /\ Series(BTC1m)[1].time = 3

\* C3: an upsert whose time is already in the Series leaves the length and
\* every other entry alone and puts the candle at the index of the old entry.
C3_UpsertReplacesInPlace ==
    (/\ last.op = "append_candle" /\ last.ok
     /\ \E i \in 1..Len(last.before) : last.before[i].time = last.candle.time)
    => LET after == Series(last.key)
       IN  /\ Len(after) = Len(last.before)
           /\ \A i \in 1..Len(last.before) :
                 after[i] = IF last.before[i].time = last.candle.time
                            THEN last.candle ELSE last.before[i]

\* C3 witness: a full Series, an inner entry replaced by a different payload.
C3_Witness ==
    /\ last.op = "append_candle" /\ last.ok
    /\ Len(last.before) = BUFFER_SIZE
    /\ last.before[2].time = last.candle.time
    /\ last.before[2] # last.candle
    /\ Series(last.key)[2] = last.candle

\* The last m elements of s.
Newest(s, m) == SubSeq(s, Len(s) - m + 1, Len(s))

\* C7: get_candles(key, limit) with limit >= 0 returns the last
\* min(limit, len) candles of the Series, ascending: nothing for limit 0.
C7_GetReturnsNewestLimit ==
    (last.op = "get_candles" /\ last.ok)
    => /\ last.result = Newest(Series(last.key), Min(last.limit, Len(Series(last.key))))
       /\ StrictlyIncreasing(last.result)

----------------------------------------------------------------------------
(* The store under one caller that passes set_candles any list at all.     *)

StoreCandles == {Candle(1, 1), Candle(2, 1)}

ArbitraryLists == UNION {[1..n -> StoreCandles] : n \in 0..(BUFFER_SIZE + 1)}

SetAny ==
    /\ cl["c1"].pc = "idle"
    /\ \E l \in ArbitraryLists : set_candles(<<"b", "t", "c">>, <<>>, l)
    /\ UNCHANGED <<script, regVars, ingVars, auxVars>>

AppendAnyMemory ==
    /\ \E c \in StoreCandles :
          append_candle_memory("c1", <<" ", "B", "t", "c", " ">>, <<"1", "M", " ">>, c)
    /\ UNCHANGED <<script, regVars, ingVars, auxVars>>

AppendAnyGet ==
    /\ \E c \in StoreCandles :
          append_candle_get("c1", <<" ", "B", "t", "c", " ">>, <<"1", "M", " ">>, c)
    /\ UNCHANGED <<script, regVars, ingVars, auxVars>>

NextStore == SetAny \/ AppendAnyMemory \/ AppendAnyGet \/ AppendSet \/ GetLast

SpecStore == InitSeries /\ [][NextStore]_vars

\* C9: after any sequence of set_candles and append_candle calls, whatever
\* lists are passed, every Series has strictly increasing times and at most
\* BUFFER_SIZE entries.
C9_SeriesInvariantAfterAnyCalls ==
    \A key \in StoreKeys :
        StrictlyIncreasing(Series(key)) /\ Len(Series(key)) <= BUFFER_SIZE

\* C10: after set_candles(key, L) the Series is the last min(BUFFER_SIZE, len(L))
\* elements of L in the order given, whatever it held before.
C10_SetKeepsNewestOfList ==
    (last.op = "set_candles" /\ last.ok)
    => Series(last.key) = Newest(last.candles, Min(BUFFER_SIZE, Len(last.candles)))

\* C10 witness: a list longer than the capacity and not in time order.
C10_Witness ==
    /\ last.op = "set_candles" /\ last.ok
    /\ Len(last.candles) = BUFFER_SIZE + 1
    /\ last.candles[1] # last.candles[2]
    /\ last.candles[2].time > last.candles[3].time
    /\ Len(Series(last.key)) = BUFFER_SIZE

----------------------------------------------------------------------------
(* Two callers, each upserting one candle into the same key, concurrently. *)

Callers == {"c1", "c2"}

InitConc ==
    /\ InitStore
    /\ track = "ops"
    /\ cl = [t \in Callers |-> Idle]
    /\ script = [init |-> <<>>, calls |-> [t \in Callers |-> [state |-> "todo"]]]

NoneCalled == \A t \in Callers : script.calls[t].state = "todo"

\* The Series the two calls start from.
ConcSetup ==
    /\ NoneCalled
    /\ \E l \in HistoryLists : set_candles(<<"b", "t", "c">>, <<>>, l)
    /\ UNCHANGED <<script, regVars, ingVars, auxVars>>

Called(t, c, st, ok) ==
    script' = [init  |-> IF NoneCalled THEN Series(BTC1m) ELSE script.init,
               calls |-> [script.calls EXCEPT ![t] =
                            [state |-> st, candle |-> c, ok |-> ok]]]

ConcAppendMemory ==
    \E t \in Callers, c \in SeriesCandles :
        /\ script.calls[t].state = "todo"
        /\ append_candle_memory(t, <<"b", "t", "c">>, <<"1", "m">>, c)
        /\ Called(t, c, "returned", TRUE)
        /\ UNCHANGED <<regVars, ingVars, auxVars>>

ConcAppendGet ==
    \E t \in Callers, c \in SeriesCandles :
        /\ script.calls[t].state = "todo"
        /\ append_candle_get(t, <<"b", "t", "c">>, <<"1", "m">>, c)
        /\ IF cl'[t].pc = "append_set"
           THEN Called(t, c, "called", TRUE)
           ELSE Called(t, c, "returned", FALSE)
        /\ UNCHANGED <<regVars, ingVars, auxVars>>

ConcAppendSet ==
    \E t \in Callers :
        /\ append_candle_set(t)
        /\ Called(t, cl[t].candle, "returned", last'.ok)
        /\ UNCHANGED <<regVars, ingVars, auxVars>>

NextConc == ConcSetup \/ ConcAppendMemory \/ ConcAppendGet \/ ConcAppendSet

SpecConc == InitConc /\ [][NextConc]_vars

\* C8: when two concurrent upserts of one key have both returned (neither
\* having met a cache failure), the Series is what the two upserts give in one
\* of the two sequential orders: sorted, no duplicate time, no update lost.
C8_ConcurrentUpsertsSerialize ==
    (\A t \in Callers : script.calls[t].state = "returned" /\ script.calls[t].ok)
    => LET a == script.calls["c1"].candle
           b == script.calls["c2"].candle
       IN  /\ Series(BTC1m) \in {UpsertList(UpsertList(script.init, a), b),
                                 UpsertList(UpsertList(script.init, b), a)}
           /\ StrictlyIncreasing(Series(BTC1m))

----------------------------------------------------------------------------
(* ws_broadcast.py: the subscription registry and broadcast_candle.        *)
(* Every "async with _lock" block holds no await and the lock is free      *)
(* whenever a task reaches one, so each block is one step.  A broadcast    *)
(* suspends in each "await ws.send_text(payload)".                         *)

\* Mutant of _norm_key: the pair as the caller spelled it.
_norm_key_AsGiven(symbol, interval) == <<symbol, interval>>

_norm_key(symbol, interval) == <<normalize_symbol(symbol), normalize_interval(interval)>>

\* del d[k]
DictDel(d, k) == [x \in (DOMAIN d) \ {k} |-> d[x]]

\* d.setdefault(k, set()).add(x)
SetDefaultAdd(d, k, x) == DictPut(d, k, (IF k \in DOMAIN d THEN d[k] ELSE {}) \cup {x})

\* Mutant of DiscardFrom: the entry stays when its set becomes empty.
DiscardFrom_KeepEmpty(d, k, x) ==
    IF k \in DOMAIN d /\ d[k] # {} THEN DictPut(d, k, d[k] \ {x}) ELSE d

\* s = d.get(k); if s: s.discard(x); if not s: del d[k]
DiscardFrom(d, k, x) ==
    IF k \in DOMAIN d /\ d[k] # {}
    THEN IF d[k] \ {x} = {} THEN DictDel(d, k) ELSE DictPut(d, k, d[k] \ {x})
    ELSE d

\* Mutant of DiscardFromAll: nothing is discarded.
DiscardFromAll_Nothing(d, keys, x) == d

\* The same for every k of keys.
DiscardFromAll(d, keys, x) ==
    [k \in {j \in DOMAIN d : ~(j \in keys /\ d[j] # {} /\ d[j] \ {x} = {})} |->
        IF k \in keys THEN d[k] \ {x} ELSE d[k]]

\* for key in keys: d.setdefault(key, set()).add(x)
AddToAll(d, keys, x) ==
    [k \in (DOMAIN d) \cup keys |->
        (IF k \in DOMAIN d THEN d[k] ELSE {}) \cup (IF k \in keys THEN {x} ELSE {})]

\* Mutant of SubscribersAfterSet: the old subscriptions are not removed.
SubscribersAfterSet_KeepOld(ws, keys) == AddToAll(subscribers, keys, ws)

\* set_subscriptions, lines 62-74: _subscribers after the call.
SubscribersAfterSet(ws, keys) ==
    LET old == IF ws \in DOMAIN connection_subs THEN connection_subs[ws] ELSE {}
    IN  AddToAll(DiscardFromAll(subscribers, old, ws), keys, ws)

subscribe(ws, symbol, interval) ==
    LET key == _norm_key(symbol, interval)
    IN  /\ subscribers' = SetDefaultAdd(subscribers, key, ws)
        /\ connection_subs' = SetDefaultAdd(connection_subs, ws, key)
        /\ intent' = [intent EXCEPT ![ws].keys = @ \cup {key}]
        /\ lastSend' = [op |-> "none"]
        /\ UNCHANGED bc

unsubscribe(ws, symbol, interval) ==
    LET key == _norm_key(symbol, interval)
    IN  /\ subscribers' = DiscardFrom(subscribers, key, ws)
        /\ connection_subs' = DiscardFrom(connection_subs, ws, key)
        /\ intent' = [intent EXCEPT ![ws].keys = @ \ {key}]
        /\ lastSend' = [op |-> "none"]
        /\ UNCHANGED bc

set_subscriptions(ws, subscriptions) ==
    LET keys == {_norm_key(subscriptions[i][1], subscriptions[i][2]) :
                    i \in 1..Len(subscriptions)}
    IN  /\ subscribers' = SubscribersAfterSet(ws, keys)
        /\ connection_subs' = DictPut(connection_subs, ws, keys)
        /\ intent' = [intent EXCEPT ![ws] = [replaced |-> TRUE, keys |-> keys]]
        /\ lastSend' = [op |-> "none"]
        /\ UNCHANGED bc

unsubscribe_all(ws) ==
    LET keys == IF ws \in DOMAIN connection_subs THEN connection_subs[ws] ELSE {}
    IN  /\ subscribers' = DiscardFromAll(subscribers, keys, ws)
        /\ connection_subs' = DictDel(connection_subs, ws)
        /\ intent' = [intent EXCEPT ![ws] = NoIntent]
        /\ lastSend' = [op |-> "unsubscribe_all", conn |-> ws]
        /\ UNCHANGED bc

\* The send to ws begins: what the connection has asked for by now, and what
\* it had asked for when the broadcast took its snapshot.
BeginSend(ws, key, atSnapshot) ==
    lastSend' = [op |-> "send", conn |-> ws, key |-> key,
                 now |-> intent[ws], atSnapshot |-> atSnapshot[ws]]

\* The connections with a subscription in the registry, but none to key.
SubscribedOnlyElsewhere(key) ==
    {ws \in Conns : /\ \E k \in DOMAIN subscribers : ws \in subscribers[k]
                    /\ ~(key \in DOMAIN subscribers /\ ws \in subscribers[key])}

\* Mutant of AfterSend: the loop ends at the first send that fails.
AfterSend_StopOnFailure(b, failed) ==
    IF failed THEN [b EXCEPT !.dead = @ \cup {b.cur}, !.todo = {}]
    ELSE b

\* Mutant of AfterSend: a socket whose send failed is tried again.
AfterSend_Retries(b, failed) ==
    IF failed THEN [b EXCEPT !.todo = @ \cup {b.cur}] ELSE b

\* broadcast_candle, lines 157-161: the loop's state after the send to b.cur.
AfterSend(b, failed) ==
    IF failed THEN [b EXCEPT !.dead = @ \cup {b.cur}] ELSE b

\* Mutant of SubscribersAfterCleanup: the whole entry of the key is dropped.
SubscribersAfterCleanup_DropKey(key, dead) ==
    IF dead # {} /\ key \in DOMAIN subscribers THEN DictDel(subscribers, key)
    ELSE subscribers

\* broadcast_candle, lines 162-169: _subscribers after the cleanup of dead.
SubscribersAfterCleanup(key, dead) ==
    IF dead # {} /\ key \in DOMAIN subscribers /\ subscribers[key] # {}
    THEN IF subscribers[key] \ dead = {} THEN DictDel(subscribers, key)
         ELSE DictPut(subscribers, key, subscribers[key] \ dead)
    ELSE subscribers

NoBroadcast == [pc |-> "idle"]

\* What a returning broadcast did: the sockets of its snapshot, the
\* connections then subscribed only elsewhere, the connections it sent to.
Returned(key, sockets, elsewhere, attempted, dead) ==
    [op |-> "returned", key |-> key, sockets |-> sockets,
     elsewhere |-> elsewhere, attempted |-> attempted, dead |-> dead]

\* broadcast_candle up to the first send_text: the snapshot under the lock,
\* the return when nobody subscribes, the payload, the first send begun.
broadcast_candle(symbol, interval, candle) ==
    LET key     == _norm_key(symbol, interval)
        sockets == IF key \in DOMAIN subscribers THEN subscribers[key] ELSE {}
    IN  /\ bc.pc = "idle"
        /\ IF sockets = {}
           THEN /\ bc' = NoBroadcast
                /\ lastSend' = Returned(key, {}, SubscribedOnlyElsewhere(key), {}, {})
           ELSE \E ws \in sockets :
                   /\ bc' = [pc |-> "sending", key |-> key, candle |-> candle,
                             sockets |-> sockets, cur |-> ws,
                             todo |-> sockets \ {ws}, dead |-> {},
                             attempted |-> {ws},
                             elsewhere |-> SubscribedOnlyElsewhere(key),
                             snapIntent |-> [c \in sockets |-> intent[c]]]
                   /\ BeginSend(ws, key, intent)
        /\ UNCHANGED <<subscribers, connection_subs, intent>>

\* A send_text returns or raises; the loop goes on to the next socket, or the
\* call cleans up the dead ones and returns.
broadcast_send_done(failed) ==
    LET b == AfterSend(bc, failed)
    IN  /\ bc.pc = "sending"
        /\ IF b.todo # {}
           THEN /\ \E ws \in b.todo :
                     /\ bc' = [b EXCEPT !.cur = ws, !.todo = @ \ {ws},
                                        !.attempted = @ \cup {ws}]
                     /\ BeginSend(ws, b.key, b.snapIntent)
                /\ UNCHANGED subscribers
           ELSE /\ bc' = NoBroadcast
                /\ subscribers' = SubscribersAfterCleanup(b.key, b.dead)
                /\ lastSend' = Returned(b.key, b.sockets, b.elsewhere,
                                        b.attempted, b.dead)
        /\ UNCHANGED <<connection_subs, intent>>

----------------
(* The registry under two connections and one publisher.                   *)

RawSubs == {<<<<" ", "b", "t", "c">>, <<"1", "M">>>>, <<<<"e", "t", "h">>, <<>>>>}

\* The handler calls set_subscriptions with a list that is not empty.
SubLists == UNION {[1..n -> RawSubs] : n \in 1..2}

Published == {<<<<"B", "T", "C">>, <<"1", "m">>>>, <<<<"E", "T", "H">>, <<"1", "m">>>>}

InitReg ==
    /\ InitStore
    /\ useMemory
    /\ track = "ops"
    /\ cl = [t \in {"c1"} |-> Idle]
    /\ script = NoScript

Subscribe ==
    /\ \E ws \in Conns, p \in RawSubs : subscribe(ws, p[1], p[2])
    /\ UNCHANGED <<storeVars, ingVars, auxVars>>

Unsubscribe ==
    /\ \E ws \in Conns, p \in RawSubs : unsubscribe(ws, p[1], p[2])
    /\ UNCHANGED <<storeVars, ingVars, auxVars>>

SetSubscriptions ==
    /\ \E ws \in Conns, l \in SubLists : set_subscriptions(ws, l)
    /\ UNCHANGED <<storeVars, ingVars, auxVars>>

UnsubscribeAll ==
    /\ \E ws \in Conns : unsubscribe_all(ws)
    /\ UNCHANGED <<storeVars, ingVars, auxVars>>

Broadcast ==
    /\ \E p \in Published : broadcast_candle(p[1], p[2], Candle(1, 1))
    /\ UNCHANGED <<storeVars, ingVars, auxVars>>

SendDone ==
    /\ \E failed \in BOOLEAN : broadcast_send_done(failed)
    /\ UNCHANGED <<storeVars, ingVars, auxVars>>

NextReg ==
    Subscribe \/ Unsubscribe \/ SetSubscriptions \/ UnsubscribeAll \/ Broadcast
    \/ SendDone

SpecReg == InitReg /\ [][NextReg]_vars

----------------------------------------------------------------------------
(* binance_ws.py: the exchange, the history requests and run_binance_ws.   *)
(* One stream, btc@kline_1m.  Bucket b of the exchange opens at b minutes; *)
(* the exchange speaks milliseconds, the store seconds.                    *)

\* str.find: the first index at which sub occurs in s, 0 if none.
str_find(s, sub) ==
    LET hits == {i \in 1..(Len(s) - Len(sub) + 1) :
                    SubSeq(s, i, i + Len(sub) - 1) = sub}
    IN  IF hits = {} THEN 0 ELSE CHOOSE i \in hits : \A h \in hits : i <= h

\* s.split(sep, 1)
str_split_once(s, sep) ==
    LET i == str_find(s, sep)
    IN  IF i = 0 THEN <<s>>
        ELSE <<SubSeq(s, 1, i - 1), SubSeq(s, i + Len(sep), Len(s))>>

KlineSep == <<"@", "k", "l", "i", "n", "e", "_">>

\* INTERVAL_SECONDS.get(normalize_interval(interval), 60)
_interval_seconds(interval) ==
    LET iv == normalize_interval(interval)
    IN  CASE iv = <<"1", "m">> -> 60
          [] iv = <<"5", "m">> -> 300
          [] iv = <<"1", "5", "m">> -> 900
          [] iv = <<"1", "h">> -> 3600
          [] iv = <<"1", "d">> -> 86400
          [] OTHER -> 60

\* The candle of a kline payload; is_closed is bool(k["x"]), here "True" or
\* "False" ("absent" being a dict without the key).
_kline_to_candle(k) ==
    [time |-> k.t \div 1000, close |-> k.c,
     is_closed |-> IF k.x THEN "True" ELSE "False"]

\* The candle built from a row [open time in ms, ..., close, ...] of /klines.
RowToCandle(row) == Candle(row[1] \div 1000, row[2])

RowsToCandles(rows) == [i \in 1..Len(rows) |-> RowToCandle(rows[i])]

\* The rows of the buckets bs, oldest first.
Rows(bs) ==
    [i \in 1..Cardinality(bs) |->
        LET b == CHOOSE x \in bs : Cardinality({y \in bs : y < x}) = i - 1
        IN  <<b * 60000, 1>>]

\* /klines with startTime, endTime and limit: the first limit buckets opened
\* within the range.
KlinesRange(startMs, endMs, limit) ==
    LET bs == {b \in 1..clock : startMs <= b * 60000 /\ b * 60000 <= endMs}
    IN  Rows({b \in bs : Cardinality({x \in bs : x < b}) < limit})

\* /klines with limit only: the latest limit buckets.
KlinesLatest(limit) == Rows({b \in 1..clock : b > clock - limit})

\* The messages the stream delivers while bucket clock is open: an update of
\* the open candle, three that the loop skips, a text that is not JSON and
\* a kline without its prices.
Messages ==
    {[stream |-> <<"b", "t", "c">> \o KlineSep \o <<"1", "m">>,
      data |-> [k |-> [t |-> clock * 60000, c |-> 2, x |-> FALSE]]],
     [stream |-> <<"b", "t", "c">> \o KlineSep \o <<"1", "m">>, data |-> [e |-> "kline"]],
     [stream |-> <<"b", "t", "c", "@", "t">>, data |-> [e |-> "trade"]],
     [result |-> "null"],
     [undecodable |-> TRUE],
     [stream |-> <<"b", "t", "c">> \o KlineSep \o <<"1", "m">>,
      data |-> [k |-> [t |-> clock * 60000]]]}

\* json.loads(message), line 178: does the text decode?
Decodes(msg) == "undecodable" \notin DOMAIN msg

\* _kline_to_candle, lines 54-62: k["t"] and the prices are there.
KlineComplete(k) == {"t", "c"} \subseteq DOMAIN k

\* run_binance_ws, lines 179-198: does the loop go on with this message?
IsKline(msg) ==
    /\ Decodes(msg)
    /\ "stream" \in DOMAIN msg
    /\ str_find(msg.stream, KlineSep) # 0
    /\ Len(str_split_once(msg.stream, KlineSep)) = 2
    /\ "data" \in DOMAIN msg
    /\ "k" \in DOMAIN msg.data

\* Mutant of GapRange: the range starts one bucket late.
GapRange_SkipFirst(last_ts, new_ts, interval_sec) ==
    [fetch |-> /\ new_ts > last_ts + interval_sec
               /\ new_ts - interval_sec >= last_ts + 2 * interval_sec,
     start |-> last_ts + 2 * interval_sec,
     end   |-> new_ts - interval_sec]

\* run_binance_ws, lines 219-222: is there a gap to fetch, and its range.
GapRange(last_ts, new_ts, interval_sec) ==
    [fetch |-> /\ new_ts > last_ts + interval_sec
               /\ new_ts - interval_sec >= last_ts + interval_sec,
     start |-> last_ts + interval_sec,
     end   |-> new_ts - interval_sec]

\* The loop's state on a kline message.  tail0 is the time of the Series'
\* last candle when the message arrived (0 for an empty Series); rest, rows
\* and storeFail tell what became of the history request and of the store
\* calls made for this message; ranges lists the ranges requested from the
\* history endpoint, boot and booted tell what became of the most-recent
\* request made for an empty Series and what it returned.
Handling(symbol, interval, candle, tail0) ==
    [pc |-> "gap_bootstrap", symbol |-> symbol, interval |-> interval,
     candle |-> candle, start |-> 0, end |-> 0, todo |-> <<>>,
     tail0 |-> tail0, rest |-> "none", rows |-> {}, storeFail |-> FALSE,
     ranges |-> <<>>, boot |-> "none", booted |-> <<>>]

\* run_binance_ws, lines 215-222, on the list that get_candles returned.
AfterRead(g, data) ==
    LET r == IF data = <<>> THEN [fetch |-> FALSE]
             ELSE GapRange(data[Len(data)].time, g.candle.time,
                           _interval_seconds(g.interval))
    IN  IF r.fetch
        THEN [g EXCEPT !.pc = "gap_fetch", !.start = r.start, !.end = r.end]
        ELSE [g EXCEPT !.pc = "append", !.todo = <<g.candle>>]

\* Mutant of AfterAppend: every appended candle is published.
AfterAppend_PublishesEach(g, ok) ==
    [g EXCEPT !.todo = Tail(@), !.pc = "broadcast", !.candle = Head(g.todo),
              !.storeFail = @ \/ ~ok]

\* One append_candle of the loop has returned.
AfterAppend(g, ok) ==
    [g EXCEPT !.todo = Tail(@),
              !.pc = IF Len(g.todo) = 1 THEN "broadcast" ELSE "append",
              !.storeFail = @ \/ ~ok]

TailTime(key) == IF Series(key) = <<>> THEN 0 ELSE Series(key)[Len(Series(key))].time

\* The loop is at "while True": how the last connection ended ("none" before
\* the first), and whether asyncio.sleep(5) has run since.
Disconnected(ended, slept) == [pc |-> "disconnected", ended |-> ended, slept |-> slept]

\* Where main.lifespan is before it creates the stream task.
BootPcs == {"startup", "bootstrap", "verify"}

\* The connection state of the loop: Disconnected at "while True" and in
\* the sleep, Connecting inside websockets.connect, Connected from there to
\* the end of "async for", Stopped when the task is over.  A task that has
\* been cancelled and not yet resumed is where it was.
ConnState(g) ==
    CASE g.pc \in BootPcs \cup {"disconnected", "backoff"} -> "Disconnected"
      [] g.pc = "connecting" -> "Connecting"
      [] g.pc = "cancelled" -> g.was
      [] g.pc = "stopped" -> "Stopped"
      [] OTHER -> "Connected"

\* Bookkeeping of the upstream message the loop has just taken.
NoteIn(r) == lastIn' = IF track = "ingest" THEN r ELSE lastIn

\* What becomes of a message at once: it raises in the decoding, it is
\* skipped, or the loop goes on to handle it.
Fate(msg) ==
    IF ~Decodes(msg) THEN "error"
    ELSE IF ~IsKline(msg) THEN "dropped"
    ELSE IF ~KlineComplete(msg.data.k) THEN "error"
    ELSE "handling"

\* Bookkeeping of the end of a message's handling: broadcast_candle has
\* returned; what failed on the way.
NoteDone(g) ==
    lastIn' = IF track = "ingest"
              THEN [op |-> "message", msg |-> lastIn.msg, fate |-> "done",
                    storeFail |-> g.storeFail, rest |-> g.rest, boot |-> g.boot]
              ELSE lastIn

\* Mutant of AfterError: the exception ends the connection.
AfterError_EndsConnection(g) == [pc |-> "backoff", ended |-> "error"]

\* run_binance_ws, lines 232-239: the exception is logged, the loop waits
\* for the next message.
AfterError(g) == [pc |-> "recv"]

\* Mutant of AfterPublish: the loop waits for the next message while the
\* candle is still to be published.
AfterPublish_Early(g, returned) == [pc |-> "recv"]

\* run_binance_ws, lines 229-231: the loop waits for the next message when
\* broadcast_candle has returned.
AfterPublish(g, returned) ==
    IF returned THEN [pc |-> "recv"] ELSE [g EXCEPT !.pc = "broadcasting"]

\* Mutant of AfterDrop: a dropped message ends the connection.
AfterDrop_Disconnects(g) == Disconnected("error", FALSE)

\* run_binance_ws, lines 180, 185, 189, 198: "continue", the loop waits for
\* the next message.
AfterDrop(g) == g

\* Mutant of AfterCleanClose: the loop connects again from inside the
\* "async with" it is in.
AfterCleanClose_Reconnects(n) ==
    [ing |-> [pc |-> "connecting", ended |-> "clean", slept |-> FALSE], upstream |-> n]

\* "async for" ends without an exception: the finally block, the exit of
\* "async with" (the socket is closed), and "while True" again.
AfterCleanClose(n) == [ing |-> Disconnected("clean", FALSE), upstream |-> n - 1]

\* Mutant of AfterCancel: the cancellation is swallowed and the loop goes on.
AfterCancel_GoesOn(n) == [ing |-> Disconnected("error", TRUE), upstream |-> 0]

\* CancelledError reaches "except asyncio.CancelledError: break" (or leaves
\* the sleep of the handler): the sockets are closed, the task is over.
AfterCancel(n) == [ing |-> [pc |-> "stopped"], upstream |-> 0]

\* Mutant of LockAfterCancel: the lock stays with the cancelled task.
LockAfterCancel_Kept(l) == l

\* The CancelledError leaves "async with _lock" through __aexit__: a lock
\* the stream task holds is released.
LockAfterCancel(l) == IF l.by = "publisher" THEN Free ELSE l

\* main.lifespan: bootstrap_all for the one pair, then the stream task
\* starts.
bootstrap_all_ok ==
    /\ ing.pc = "startup"
    /\ ing' = Disconnected("none", FALSE)
    /\ set_candles(<<"B", "T", "C">>, <<"1", "m">>,
                   RowsToCandles(KlinesLatest(RestLimit)))
    /\ UNCHANGED <<script, regVars, clock, auxVars>>

\* The same when the history request fails.
bootstrap_all_failed ==
    /\ ing.pc = "startup"
    /\ ing' = Disconnected("none", FALSE)
    /\ UNCHANGED <<storeVars, regVars, clock, auxVars>>

bootstrap_all == bootstrap_all_ok \/ bootstrap_all_failed

\* A message arrives: it is skipped, or parsed and followed by the first
\* get_candles of the gap-fill.
recv_message(msg) ==
    /\ ing.pc = "recv"
    /\ NoteIn([op |-> "message", msg |-> msg, fate |-> Fate(msg)])
    /\ IF Fate(msg) = "error"
       THEN /\ ing' = AfterError(ing)
            /\ UNCHANGED storeVars
       ELSE IF Fate(msg) = "dropped"
       THEN /\ ing' = AfterDrop(ing)
            /\ UNCHANGED storeVars
       ELSE LET parts    == str_split_once(msg.stream, KlineSep)
                symbol   == normalize_symbol(parts[1])
                interval == normalize_interval(parts[2])
                g        == Handling(symbol, interval, _kline_to_candle(msg.data.k),
                                     TailTime(build_candle_key(symbol, interval)))
            IN  /\ get_candles(symbol, interval, BUFFER_SIZE)
                /\ ing' = IF last'.result = <<>>
                          THEN [g EXCEPT !.storeFail = ~last'.ok]
                          ELSE AfterRead(g, last'.result)
                /\ UNCHANGED script
    /\ UNCHANGED <<regVars, clock, lock, probe, propVars, heap, store_ref, held, lastMsg, upstream, shutdown>>

\* Mutant of AfterBootstrap: after a failed bootstrap the candle of the
\* message is not appended.
AfterBootstrap_SkipsCandle(g, outcome, candles, stored) ==
    [g EXCEPT !.pc = IF outcome = "failed" THEN "broadcast" ELSE "gap_reread",
              !.boot = outcome, !.booted = candles, !.storeFail = @ \/ ~stored]

\* run_binance_ws, lines 213-214: bootstrap_symbol_interval has returned,
\* whatever became of its request; the Series is read again.
AfterBootstrap(g, outcome, candles, stored) ==
    [g EXCEPT !.pc = "gap_reread", !.boot = outcome, !.booted = candles,
              !.storeFail = @ \/ ~stored]

\* The store looked empty: bootstrap_symbol_interval.
gap_bootstrap_ok ==
    /\ ing.pc = "gap_bootstrap"
    /\ LET candles == RowsToCandles(KlinesLatest(RestLimit))
       IN  /\ set_candles(ing.symbol, ing.interval, candles)
           /\ ing' = AfterBootstrap(ing, "ok", candles, last'.ok)
    /\ UNCHANGED <<script, regVars, clock, auxVars>>

\* The same when the history request fails.
gap_bootstrap_failed ==
    /\ ing.pc = "gap_bootstrap"
    /\ ing' = AfterBootstrap(ing, "failed", <<>>, TRUE)
    /\ UNCHANGED <<storeVars, regVars, clock, auxVars>>

gap_bootstrap == gap_bootstrap_ok \/ gap_bootstrap_failed

\* The second get_candles, after the bootstrap.
gap_reread ==
    /\ ing.pc = "gap_reread"
    /\ get_candles(ing.symbol, ing.interval, BUFFER_SIZE)
    /\ ing' = AfterRead([ing EXCEPT !.storeFail = @ \/ ~last'.ok], last'.result)
    /\ UNCHANGED <<script, regVars, clock, auxVars>>

\* Mutant of AfterFetch: the candle of the message goes first.
AfterFetch_CandleFirst(g, rest, got) ==
    [g EXCEPT !.pc = "append", !.rest = rest,
              !.rows = {got[i].time : i \in 1..Len(got)},
              !.ranges = Append(@, <<g.start, g.end>>),
              !.todo = <<g.candle>> \o got]

\* run_binance_ws, lines 223-228: fetch_klines_range has returned got; the
\* loop appends each of them, then the candle of the message.
AfterFetch(g, rest, got) ==
    [g EXCEPT !.pc = "append", !.rest = rest,
              !.rows = {got[i].time : i \in 1..Len(got)},
              !.ranges = Append(@, <<g.start, g.end>>),
              !.todo = got \o <<g.candle>>]

\* fetch_klines_range for the gap returns the rows of the range.
gap_fetch_ok ==
    /\ ing.pc = "gap_fetch"
    /\ ing' = AfterFetch(ing, "ok",
                         RowsToCandles(KlinesRange(ing.start * 1000, ing.end * 1000,
                                                   RestLimit)))
    /\ UNCHANGED <<storeVars, regVars, clock, auxVars>>

\* The request fails: fetch_klines_range returns [].
gap_fetch_failed ==
    /\ ing.pc = "gap_fetch"
    /\ ing' = AfterFetch(ing, "failed", <<>>)
    /\ UNCHANGED <<storeVars, regVars, clock, auxVars>>

gap_fetch == gap_fetch_ok \/ gap_fetch_failed

\* The next append_candle of the loop: the gap candles, then the candle of
\* the message.
ingest_append_memory ==
    /\ ing.pc = "append"
    /\ append_candle_memory("c1", ing.symbol, ing.interval, Head(ing.todo))
    /\ ing' = AfterAppend(ing, TRUE)
    /\ UNCHANGED <<script, regVars, clock, auxVars>>

ingest_append_get ==
    /\ ing.pc = "append"
    /\ append_candle_get("c1", ing.symbol, ing.interval, Head(ing.todo))
    /\ ing' = IF cl'["c1"].pc = "idle" THEN AfterAppend(ing, FALSE) ELSE ing
    /\ UNCHANGED <<script, regVars, clock, auxVars>>

ingest_append_set ==
    /\ ing.pc = "append"
    /\ append_candle_set("c1")
    /\ ing' = AfterAppend(ing, last'.ok)
    /\ UNCHANGED <<script, regVars, clock, auxVars>>

\* broadcast_candle of the message's candle; the loop waits for its return.
\* (broadcast_candle_proposal then works on a registry of its own.)
ingest_broadcast ==
    /\ ing.pc = "broadcast"
    /\ broadcast_candle(ing.symbol, ing.interval, ing.candle)
    /\ ing' = AfterPublish(ing, bc'.pc = "idle")
    /\ IF bc'.pc = "idle" THEN NoteDone(ing) ELSE UNCHANGED lastIn
    /\ UNCHANGED <<storeVars, clock, heap, store_ref, held, lastMsg, upstream, shutdown,
                   lock, probe, propVars>>

ingest_send_done ==
    /\ ing.pc = "broadcasting"
    /\ \E failed \in BOOLEAN : broadcast_send_done(failed)
    /\ ing' = AfterPublish(ing, bc'.pc = "idle")
    /\ IF bc'.pc = "idle" THEN NoteDone(ing) ELSE UNCHANGED lastIn
    /\ UNCHANGED <<storeVars, clock, heap, store_ref, held, lastMsg, upstream, shutdown,
                   lock, probe, propVars>>

\* The exchange closes the open bucket and opens the next.
Tick ==
    /\ clock < MaxBucket
    /\ clock' = clock + 1
    /\ UNCHANGED <<storeVars, regVars, ing, auxVars>>

RecvMessage == \E msg \in Messages : recv_message(msg)

LoopUnchanged ==
    UNCHANGED <<storeVars, regVars, clock, lock, probe, propVars, heap, store_ref, held, lastMsg, shutdown,
                lastIn>>

\* "async with websockets.connect(url, ...)" is entered.
ws_connect ==
    /\ ing.pc = "disconnected"
    /\ ing' = [ing EXCEPT !.pc = "connecting"]
    /\ UNCHANGED upstream
    /\ LoopUnchanged

\* The connection is made: _binance_ws_connected = True, "async for" waits.
ws_connect_ok ==
    /\ ing.pc = "connecting"
    /\ ing' = [pc |-> "recv"]
    /\ upstream' = upstream + 1
    /\ LoopUnchanged

\* The connection attempt raises: "except Exception", asyncio.sleep(5).
ws_connect_fail ==
    /\ ing.pc = "connecting"
    /\ ing' = [pc |-> "backoff", ended |-> "refused"]
    /\ UNCHANGED upstream
    /\ LoopUnchanged

\* "async for" raises (connection lost, keepalive timeout): the finally
\* block, the exit of "async with", "except Exception", asyncio.sleep(5).
ws_error ==
    /\ ing.pc = "recv"
    /\ ing' = [pc |-> "backoff", ended |-> "error"]
    /\ upstream' = upstream - 1
    /\ LoopUnchanged

\* The peer closes the connection cleanly.
ws_clean_close ==
    /\ ing.pc = "recv"
    /\ ing' = AfterCleanClose(upstream).ing
    /\ upstream' = AfterCleanClose(upstream).upstream
    /\ LoopUnchanged

\* asyncio.sleep(5) is over.
backoff_done ==
    /\ ing.pc = "backoff"
    /\ ing' = Disconnected(ing.ended, TRUE)
    /\ UNCHANGED upstream
    /\ LoopUnchanged

\* main.lifespan after "yield": _ws_task.cancel().  The task is suspended in
\* an await; what it does next is receive the CancelledError there.
lifespan_cancel ==
    /\ ~shutdown
    /\ ing.pc \notin BootPcs
    /\ shutdown' = TRUE
    /\ ing' = [pc |-> "cancelled", was |-> ConnState(ing)]
    /\ UNCHANGED <<storeVars, regVars, clock, lock, probe, propVars, heap, store_ref, held, lastMsg, upstream,
                   lastIn>>

\* The CancelledError unwinds the task: the store call and the broadcast it
\* was in are abandoned.
ws_cancelled ==
    /\ ing.pc = "cancelled"
    /\ ing' = AfterCancel(upstream).ing
    /\ upstream' = AfterCancel(upstream).upstream
    /\ cl' = [t \in DOMAIN cl |-> Idle]
    /\ bc' = NoBroadcast
    /\ lock' = LockAfterCancel(lock)
    /\ UNCHANGED <<useMemory, memory_store, redis_db, last, inserted, tainted, track,
                   script, subscribers, connection_subs, intent, lastSend, clock,
                   heap, store_ref, held, lastMsg, shutdown, lastIn, probe, propVars>>

Viewer ==
    /\ \/ subscribe("w1", <<"b", "t", "c">>, <<"1", "m">>)
       \/ unsubscribe_all("w1")
    /\ UNCHANGED <<storeVars, ingVars, auxVars>>

InitIngest ==
    /\ InitStore
    /\ track = "ops"
    /\ cl = [t \in {"c1"} |-> Idle]
    /\ script = NoScript

NextIngest ==
    bootstrap_all \/ ws_connect \/ ws_connect_ok \/ ws_connect_fail \/ ws_error
    \/ ws_clean_close \/ backoff_done
    \/ RecvMessage \/ gap_bootstrap \/ gap_reread \/ gap_fetch
    \/ ingest_append_memory \/ ingest_append_get \/ ingest_append_set
    \/ ingest_broadcast \/ ingest_send_done \/ Tick \/ Viewer

SpecIngest == InitIngest /\ [][NextIngest]_vars

SeriesTimes(key) == {Series(key)[i].time : i \in 1..Len(Series(key))}

\* C4: the Series had tail time T when a candle for T + 3S arrived (S the
\* step of the interval) and every store call made for it worked.  When the
\* appends are done the Series holds T, T+S, T+2S and T+3S if the history
\* request succeeded; if it failed, the Series holds T and T+3S and nothing
\* at T+S or T+2S.
C4_GapReconciled ==
    LET T     == ing.tail0
        S     == 60
        times == SeriesTimes(build_candle_key(ing.symbol, ing.interval))
    IN  (/\ ing.pc = "broadcast"
         /\ T > 0 /\ ing.candle.time = T + 3 * S
         /\ ~ing.storeFail) =>
            /\ ing.rest # "none"
            /\ ing.rest = "ok" => {T, T + S, T + 2 * S, T + 3 * S} \subseteq times
            /\ ing.rest = "failed" =>
                  /\ {T, T + 3 * S} \subseteq times
                  /\ T + S \notin times /\ T + 2 * S \notin times

C4_Witness ==
    /\ ing.pc = "broadcast"
    /\ ing.tail0 > 0 /\ ing.candle.time = ing.tail0 + 180
    /\ ~ing.storeFail
    /\ ing.rest = "ok" /\ ing.rows = {ing.tail0 + 60, ing.tail0 + 120}
    /\ ~useMemory

\* C5: when broadcast_candle for key K returns, it has attempted a send to
\* exactly the connections that were subscribed to K when it took its
\* snapshot, whether or not earlier sends failed, and to no connection that
\* was then subscribed only to other keys.
C5_BroadcastReachesSubscribersOfKey ==
    lastSend.op = "returned" =>
        /\ lastSend.attempted = lastSend.sockets
        /\ lastSend.attempted \cap lastSend.elsewhere = {}

C5_Witness ==
    /\ lastSend.op = "returned"
    /\ lastSend.attempted # {}
    /\ lastSend.elsewhere # {}
    /\ lastSend.dead # {}

\* The connection had its subscriptions replaced and does not hold key.
Replaced(want, key) == want.replaced /\ key \notin want.keys

\* C6, as stated: once set_subscriptions(conn, newKeys) has returned, no send
\* to conn begins for a key that conn does not hold at that moment, however
\* the call interleaves with a running broadcast_candle.
C6_NoSendOutsideNewKeys ==
    lastSend.op = "send" => ~Replaced(lastSend.now, lastSend.key)

\* C6, amended: a broadcast_candle that takes its snapshot after
\* set_subscriptions(conn, newKeys) has returned sends conn only keys that
\* conn held when the snapshot was taken.
C6_NoSendOutsideKeysAtSnapshot ==
    lastSend.op = "send" => ~Replaced(lastSend.atSnapshot, lastSend.key)

C6_Witness ==
    /\ lastSend.op = "send"
    /\ lastSend.atSnapshot.replaced
    /\ lastSend.atSnapshot.keys = {lastSend.key}
    /\ Replaced(lastSend.now, lastSend.key)

----------------------------------------------------------------------------
(* The in-memory backend as Python objects: which list object the store    *)
(* holds under a key, which one a reader was handed, and what an in-place  *)
(* change of one object does to everyone who refers to it.                 *)

\* The identity of the next list object.
NewId(h) == CHOOSE i \in 1..(Cardinality(DOMAIN h) + 1) :
                /\ i \notin DOMAIN h
                /\ \A j \in 1..(i - 1) : j \in DOMAIN h

\* A list display or a slice: a new object with these items.
ListNew(h, items) == [heap |-> DictPut(h, NewId(h), items), id |-> NewId(h)]

\* Mutant of ListCopy: list(x) hands back x itself.
ListCopy_Same(h, id) == [heap |-> h, id |-> id]

\* list(x): a new object with the items of x.
ListCopy(h, id) == ListNew(h, h[id])

\* append_candle, lines 88-102, on the object data: the replacement or the
\* append and sort, all in place.
InPlaceUpsert(data, candle) ==
    LET hits == {i \in 1..Len(data) : data[i].time = candle.time}
    IN  IF hits # {}
        THEN LET i == CHOOSE j \in hits : \A h \in hits : j <= h
             IN  [data EXCEPT ![i] = candle]
        ELSE list_sort(Append(data, candle))

\* The objects still referred to by the store or by the reader.
Collect(h, refs, rd) ==
    [i \in {j \in DOMAIN h : j = rd.id \/ \E k \in DOMAIN refs : refs[k] = j} |-> h[i]]

\* get_candles, lines 45-55: the object that is returned.
get_candles_object(symbol, interval, limit) ==
    LET key == build_candle_key(symbol, interval)
        r   == IF key \notin DOMAIN store_ref THEN ListNew(heap, <<>>)
               ELSE LET data == store_ref[key]
                    IN  IF Len(heap[data]) > limit
                        THEN LET sl == ListNew(heap, PySliceFrom(heap[data], -limit))
                             IN  ListCopy(sl.heap, sl.id)
                        ELSE ListCopy(heap, data)
        got == [id |-> r.id, items |-> r.heap[r.id]]
    IN  /\ held' = got
        /\ heap' = Collect(r.heap, store_ref, got)
        /\ UNCHANGED store_ref

\* append_candle, lines 83-105: the copy, the change in place, the slice
\* when the list is too long, and the object stored under the key.
append_candle_object(symbol, interval, candle) ==
    LET key  == build_candle_key(symbol, interval)
        d    == IF key \notin DOMAIN store_ref THEN ListNew(heap, <<>>)
                ELSE ListCopy(heap, store_ref[key])
        h1   == [d.heap EXCEPT ![d.id] = InPlaceUpsert(@, candle)]
        f    == IF Len(h1[d.id]) > BUFFER_SIZE
                THEN ListNew(h1, PySliceFrom(h1[d.id], -BUFFER_SIZE))
                ELSE [heap |-> h1, id |-> d.id]
        refs == DictPut(store_ref, key, f.id)
    IN  /\ store_ref' = refs
        /\ heap' = Collect(f.heap, refs, held)
        /\ UNCHANGED held

\* set_candles, line 145: a slice or a copy of the caller's list is stored.
set_candles_object(symbol, interval, candles) ==
    LET key  == build_candle_key(symbol, interval)
        f    == ListNew(heap, TruncatedList(candles))
        refs == DictPut(store_ref, key, f.id)
    IN  /\ store_ref' = refs
        /\ heap' = Collect(f.heap, refs, held)
        /\ UNCHANGED held

CopyCandles == {Candle(1, 1), Candle(BUFFER_SIZE + 1, 1), Candle(BUFFER_SIZE + 1, 2)}

InitCopy ==
    /\ InitStore
    /\ useMemory
    /\ track = "objects"
    /\ cl = [t \in {"c1"} |-> Idle]
    /\ script = NoScript

CopyGet ==
    /\ \E n \in {2, BUFFER_SIZE} :
          /\ get_candles(<<"b", "t", "c">>, <<"1", "m">>, n)
          /\ get_candles_object(<<"b", "t", "c">>, <<"1", "m">>, n)
    /\ UNCHANGED <<script, regVars, ingVars, lock, probe, propVars, lastMsg, upstream, shutdown, lastIn>>

CopyAppend ==
    /\ \E c \in CopyCandles :
          /\ append_candle_memory("c1", <<"B", "T", "C">>, <<"1", "M">>, c)
          /\ append_candle_object(<<"B", "T", "C">>, <<"1", "M">>, c)
    /\ UNCHANGED <<script, regVars, ingVars, lock, probe, propVars, lastMsg, upstream, shutdown, lastIn>>

CopySet ==
    /\ \E l \in {Run(2, 3), Run(1, BUFFER_SIZE), <<>>} :
          /\ set_candles(<<"B", "T", "C">>, <<>>, l)
          /\ set_candles_object(<<"B", "T", "C">>, <<>>, l)
    /\ UNCHANGED <<script, regVars, ingVars, lock, probe, propVars, lastMsg, upstream, shutdown, lastIn>>

NextCopy == CopyGet \/ CopyAppend \/ CopySet

SpecCopy == InitCopy /\ [][NextCopy]_vars

\* The object view and the value view of the store agree.
ObjectsAgree ==
    /\ DOMAIN store_ref = DOMAIN memory_store
    /\ \A key \in DOMAIN store_ref : heap[store_ref[key]] = memory_store[key]

\* C11: the list a reader got from get_candles keeps the items it had when
\* it was returned, whatever append_candle and set_candles do to the key
\* afterwards.
C11_ReturnedListIsIndependent ==
    /\ ObjectsAgree
    /\ held.id # 0 => heap[held.id] = held.items

\* C11 witness: the reader holds a full list whose oldest candle the Series
\* has since lost and whose newest candle the Series has since replaced.
C11_Witness ==
    /\ held.id # 0
    /\ Len(held.items) = BUFFER_SIZE
    /\ Len(memory_store[BTC1m]) = BUFFER_SIZE
    /\ memory_store[BTC1m][1].time > held.items[1].time
    /\ memory_store[BTC1m][BUFFER_SIZE].time = held.items[BUFFER_SIZE].time
    /\ memory_store[BTC1m][BUFFER_SIZE] # held.items[BUFFER_SIZE]

----------------------------------------------------------------------------
(* The two backends side by side: every call is made on the in-memory      *)
(* store and on a cache that does not fail, and every read is answered by  *)
(* both.                                                                   *)

\* get_candles, lines 45-55, on the in-memory store.
MemoryRead(key, limit) ==
    IF key \in DOMAIN memory_store THEN LastCandles(memory_store[key], limit) ELSE <<>>

\* get_candles, lines 57-72, on the cache.
RedisRead(key, limit) ==
    IF key \in DOMAIN redis_db THEN LastCandles(json_loads(redis_db[key]), limit)
    ELSE <<>>

\* get_store_keys_info, lines 174-179 and 187-193: the entry of one list
\* (None is written -1).
KeyInfo(data) ==
    [count      |-> Len(data),
     first_time |-> IF data # <<>> THEN data[1].time ELSE -1,
     last_time  |-> IF data # <<>> THEN data[Len(data)].time ELSE -1]

\* Does the key start with "candles:"?
IsCandleKey(key) == key # <<>> /\ key[1] = "candles:"

MemoryKeysInfo ==
    [key \in {k \in DOMAIN memory_store : IsCandleKey(k)} |-> KeyInfo(memory_store[key])]

RedisKeysInfo ==
    [key \in {k \in DOMAIN redis_db : IsCandleKey(k)} |-> KeyInfo(json_loads(redis_db[key]))]

BothUnchanged ==
    UNCHANGED <<useMemory, cl, inserted, tainted, track, script, regVars, ingVars, auxVars>>

both_append_candle(symbol, interval, candle) ==
    LET key == build_candle_key(symbol, interval)
        m   == IF key \in DOMAIN memory_store THEN memory_store[key] ELSE <<>>
        r   == IF key \in DOMAIN redis_db THEN json_loads(redis_db[key]) ELSE <<>>
    IN  /\ memory_store' = DictPut(memory_store, key, UpsertList(m, candle))
        /\ redis_db' = DictPut(redis_db, key, json_dumps(UpsertList(r, candle)))
        /\ last' = [op |-> "append_candle"]
        /\ BothUnchanged

both_set_candles(symbol, interval, candles) ==
    LET key == build_candle_key(symbol, interval)
    IN  /\ memory_store' = DictPut(memory_store, key, TruncatedList(candles))
        /\ redis_db' = DictPut(redis_db, key, json_dumps(TruncatedList(candles)))
        /\ last' = [op |-> "set_candles"]
        /\ BothUnchanged

both_get_candles(symbol, interval, limit) ==
    LET key == build_candle_key(symbol, interval)
    IN  /\ last' = [op |-> "get_candles", memory |-> MemoryRead(key, limit),
                    redis |-> RedisRead(key, limit)]
        /\ UNCHANGED <<memory_store, redis_db>>
        /\ BothUnchanged

both_get_store_keys_info ==
    /\ last' = [op |-> "get_store_keys_info", memory |-> MemoryKeysInfo,
                redis |-> RedisKeysInfo]
    /\ UNCHANGED <<memory_store, redis_db>>
    /\ BothUnchanged

BothCandles ==
    {Candle(t, 1) : t \in 1..(BUFFER_SIZE + 1)}
    \cup {[time |-> BUFFER_SIZE + 1, close |-> 2, is_closed |-> b] : b \in {"True", "False"}}

BothLists == {<<>>, <<Candle(2, 1), Candle(1, 1)>>, Run(1, BUFFER_SIZE + 1)}

InitBoth ==
    /\ InitStore
    /\ useMemory
    /\ track = "both"
    /\ cl = [t \in {"c1"} |-> Idle]
    /\ script = NoScript

BothAppend ==
    \E c \in BothCandles : both_append_candle(<<"b", "t", "c", " ">>, <<"1", "M">>, c)

BothSet ==
    \/ \E l \in BothLists : both_set_candles(<<"B", "T", "C">>, <<>>, l)
    \/ both_set_candles(<<"e", "t", "h">>, <<"5", "M">>, <<>>)

BothGet ==
    \/ \E n \in 0..2 : both_get_candles(<<"B", "T", "C">>, <<"1", "m">>, n)
    \/ both_get_candles(<<"E", "T", "H">>, <<"5", "m">>, BUFFER_SIZE)

BothKeysInfo == both_get_store_keys_info

NextBoth == BothAppend \/ BothSet \/ BothGet \/ BothKeysInfo

SpecBoth == InitBoth /\ [][NextBoth]_vars

\* C12: after any sequence of calls made on both backends, with a cache that
\* does not fail, get_candles and get_store_keys_info return the same on
\* both.
C12_BackendsAnswerAlike ==
    last.op \in {"get_candles", "get_store_keys_info"} => last.memory = last.redis

\* C12 witness: a read of a Series that holds a stream candle (with
\* is_closed) next to history candles (without), after an eviction.
C12_Witness ==
    /\ last.op = "get_candles"
    /\ Len(last.redis) = 2
    /\ last.redis[2].is_closed = "True"
    /\ last.redis[1].is_closed = "absent"
    /\ Len(memory_store[BTC1m]) = BUFFER_SIZE

----------------------------------------------------------------------------
(* Failed deliveries and disconnects in the registry.                      *)

\* The keys under which the registry lists conn as a subscriber.
ListedUnder(subs, conn) == {k \in DOMAIN subs : conn \in subs[k]}

\* C13: when a broadcast_candle in which sends failed returns, it has
\* attempted every socket of its snapshot, and its cleanup has left the
\* connection map and the subscriptions of every connection whose send did
\* not fail as they were.
C13_FailedSendSparesOthers ==
    [][(bc.pc = "sending" /\ bc'.pc = "idle") =>
          /\ lastSend'.op = "returned"
          /\ lastSend'.attempted = lastSend'.sockets
          /\ connection_subs' = connection_subs
          /\ \A c \in Conns \ lastSend'.dead :
                ListedUnder(subscribers', c) = ListedUnder(subscribers, c)]_vars

\* C13 witness: of two subscribers of the key one send failed; the other
\* was attempted and is still subscribed.
C13_Witness ==
    /\ lastSend.op = "returned"
    /\ Cardinality(lastSend.sockets) = 2
    /\ Cardinality(lastSend.dead) = 1
    /\ \E c \in lastSend.attempted \ lastSend.dead :
          lastSend.key \in ListedUnder(subscribers, c)

\* C14: when a broadcast_candle in which the send to c failed returns, c is
\* listed under no key and has no entry in the connection map.
C14_FailedConnectionRemoved ==
    lastSend.op = "returned" =>
        \A c \in lastSend.dead :
            /\ ListedUnder(subscribers, c) = {}
            /\ c \notin DOMAIN connection_subs

\* C15: when unsubscribe_all(conn) returns, conn is listed under no key and
\* has no entry in the connection map.
C15_UnsubscribeAllRemovesConnection ==
    lastSend.op = "unsubscribe_all" =>
        /\ ListedUnder(subscribers, lastSend.conn) = {}
        /\ lastSend.conn \notin DOMAIN connection_subs

\* C15 witness: unsubscribe_all of a connection to which a running broadcast
\* is about to send, while a connection whose send failed earlier is still
\* in the connection map without being listed.
C15_Witness ==
    /\ lastSend.op = "unsubscribe_all"
    /\ bc.pc = "sending" /\ lastSend.conn \in bc.todo
    /\ \E c \in DOMAIN connection_subs :
          connection_subs[c] # {} /\ ListedUnder(subscribers, c) = {}

----------------------------------------------------------------------------
(* main.py, websocket_candles: the messages of a client.                   *)

\* if x: for a string
Truthy(x) == x # <<>>

\* Lines 1078-1081: the (symbol, interval) pairs taken from the items.
SubsOfItems(items) ==
    LET ok == SelectSeq(items, LAMBDA it : Truthy(it.symbol) /\ Truthy(it.interval))
    IN  [i \in 1..Len(ok) |-> <<str_strip(ok[i].symbol), str_strip(ok[i].interval)>>]

\* Lines 1085-1090: the interval of a single subscription.
HandlerInterval(interval) ==
    IF str_upper(interval) = <<"1", "D">> THEN <<"1", "d">> ELSE str_lower(interval)

\* The keys the registry holds for conn.
KeysOf(conn) == IF conn \in DOMAIN connection_subs THEN connection_subs[conn] ELSE {}

\* One turn of the receive loop: {subscriptions: [...]} replaces, {symbol,
\* interval} adds, anything else is ignored.
websocket_candles_message(conn, msg) ==
    /\ IF "subscriptions" \in DOMAIN msg
       THEN /\ IF Truthy(SubsOfItems(msg.subscriptions))
               THEN set_subscriptions(conn, SubsOfItems(msg.subscriptions))
               ELSE UNCHANGED regVars
            /\ lastMsg' = [op |-> "subscriptions", conn |-> conn,
                           items |-> msg.subscriptions, before |-> KeysOf(conn)]
       ELSE IF "symbol" \in DOMAIN msg /\ Truthy(msg.symbol) /\ Truthy(msg.interval)
       THEN /\ subscribe(conn, str_upper(msg.symbol), HandlerInterval(msg.interval))
            /\ lastMsg' = [op |-> "subscribe", conn |-> conn, symbol |-> msg.symbol,
                           interval |-> msg.interval, before |-> KeysOf(conn)]
       ELSE /\ UNCHANGED regVars
            /\ lastMsg' = [op |-> "ignored", conn |-> conn]
    /\ UNCHANGED <<storeVars, ingVars, lock, probe, propVars, heap, store_ref, held, upstream, shutdown, lastIn>>

\* The finally block of the handler: the connection is gone.
websocket_candles_close(conn) ==
    /\ unsubscribe_all(conn)
    /\ lastMsg' = [op |-> "none"]
    /\ UNCHANGED <<storeVars, ingVars, lock, probe, propVars, heap, store_ref, held, upstream, shutdown, lastIn>>

ClientItems ==
    {[symbol |-> <<" ", "b", "t", "c">>, interval |-> <<"1", "M">>],
     [symbol |-> <<"e", "t", "h">>, interval |-> <<"5", "m", " ">>]}

ClientMessages ==
    {[subscriptions |-> l] : l \in UNION {[1..n -> ClientItems] : n \in 0..2}}
    \cup {[symbol |-> <<"b", "t", "c", " ">>, interval |-> <<"1", "M">>],
          [symbol |-> <<"e", "t", "h">>, interval |-> <<>>],
          [type |-> "ping"]}

ClientMessage == \E conn \in Conns, msg \in ClientMessages : websocket_candles_message(conn, msg)

ClientClose == \E conn \in Conns : websocket_candles_close(conn)

NextClients == ClientMessage \/ ClientClose

SpecClients == InitReg /\ [][NextClients]_vars

\* The normalized keys of the entries of a subscriptions list.
KeysOfItems(items) ==
    {<<normalize_symbol(items[i].symbol), normalize_interval(items[i].interval)>> :
        i \in 1..Len(items)}

\* C16: after a message {subscriptions: L} the keys of the connection are
\* exactly the normalized keys of the entries of L, for the empty L too;
\* after a message {symbol, interval} they are the previous keys and that one.
C16_MessagesSetTheSubscriptions ==
    /\ lastMsg.op = "subscriptions" => KeysOf(lastMsg.conn) = KeysOfItems(lastMsg.items)
    /\ lastMsg.op = "subscribe" =>
          KeysOf(lastMsg.conn) =
              lastMsg.before
              \cup {<<normalize_symbol(lastMsg.symbol), normalize_interval(lastMsg.interval)>>}

----------------------------------------------------------------------------
(* The life of the stream task: connect, receive, reconnect, shutdown.     *)
(* The exchange's clock stands still here, so there is no gap to fetch.    *)

InitLife ==
    /\ InitStore
    /\ track = "ingest"
    /\ cl = [t \in {"c1"} |-> Idle]
    /\ script = NoScript

\* What the stream task does when it runs.
LoopStep ==
    ws_connect \/ ws_connect_ok \/ ws_connect_fail \/ ws_error \/ ws_clean_close
    \/ backoff_done \/ RecvMessage \/ gap_bootstrap \/ gap_reread
    \/ ingest_append_memory \/ ingest_append_get \/ ingest_append_set
    \/ ingest_broadcast \/ ingest_send_done \/ ws_cancelled

NextLife == bootstrap_all \/ LoopStep \/ lifespan_cancel \/ Viewer

\* The event loop keeps running the task: an await that can complete does.
SpecLife == InitLife /\ [][NextLife]_vars /\ WF_vars(bootstrap_all) /\ WF_vars(LoopStep)

\* C17, as stated: the connection state changes only by Disconnected ->
\* Connecting -> Connected -> Disconnected (and to Stopped), at most one
\* upstream connection is open, and the task stops only after shutdown.
C17_LifecycleAsStated ==
    /\ [](upstream <= 1)
    /\ [](ing.pc = "stopped" => shutdown)
    /\ [][ConnState(ing') # ConnState(ing) =>
            \/ ConnState(ing') = "Stopped"
            \/ <<ConnState(ing), ConnState(ing')>> \in
                  {<<"Disconnected", "Connecting">>, <<"Connecting", "Connected">>,
                   <<"Connected", "Disconnected">>}]_vars

\* C17, amended: as above, and a connection attempt that fails goes from
\* Connecting back to Disconnected.
C17_LifecycleWithFailedAttempts ==
    /\ [](upstream <= 1)
    /\ [](ing.pc = "stopped" => shutdown)
    /\ [][ConnState(ing') # ConnState(ing) =>
            \/ ConnState(ing') = "Stopped"
            \/ <<ConnState(ing), ConnState(ing')>> \in
                  {<<"Disconnected", "Connecting">>, <<"Connecting", "Connected">>,
                   <<"Connected", "Disconnected">>, <<"Connecting", "Disconnected">>}]_vars

\* C17 witness: the loop connects again after an attempt that failed, with
\* no connection open.
C17_Witness ==
    /\ ing.pc = "connecting" /\ ing.ended = "refused"
    /\ upstream = 0 /\ ~shutdown

\* C18: whenever the loop enters Connecting after a connection has ended, by
\* an error or by a clean close, asyncio.sleep(5) has run since.
C18_BackoffBeforeReconnect ==
    (ing.pc = "connecting" /\ ing.ended # "none") => ing.slept

\* C19: a task that is Disconnected connects again unless shutdown is
\* requested, and a task whose shutdown is requested stops.
C19_ReconnectsUntilShutdown ==
    /\ (ConnState(ing) = "Disconnected" /\ ing.pc # "startup")
          ~> (ing.pc = "connecting" \/ shutdown)
    /\ shutdown ~> (ing.pc = "stopped")

\* C19 witness: the task was cancelled while a connection was open and has
\* stopped, the connection closed.
C19_Witness ==
    /\ ing.pc = "stopped" /\ shutdown /\ upstream = 0
    /\ StoreKeys # {}

\* The envelope has no routing string, or one without "@kline_", or no
\* candle payload.
Malformed(msg) ==
    \/ "stream" \notin DOMAIN msg
    \/ str_find(msg.stream, KlineSep) = 0
    \/ "data" \notin DOMAIN msg
    \/ "k" \notin DOMAIN msg.data

\* C20: taking a malformed message leaves the loop connected and waiting for
\* the next message, and changes no Series, nothing in the registry and
\* nothing about any broadcast.
C20_MalformedMessageIsDropped ==
    [][(lastIn' # lastIn /\ Malformed(lastIn'.msg)) =>
          /\ ing.pc = "recv" /\ ing' = ing
          /\ upstream' = upstream
          /\ UNCHANGED <<memory_store, redis_db, subscribers, connection_subs, bc,
                         lastSend>>]_vars

\* C20 witness: a malformed message has just been taken, with a Series
\* stored and a subscriber registered.
C20_Witness ==
    /\ lastIn.op = "message" /\ Malformed(lastIn.msg)
    /\ ing.pc = "recv" /\ upstream = 1
    /\ StoreKeys # {} /\ DOMAIN subscribers # {}

----------------------------------------------------------------------------
(* One pair under two spellings: a writer and a subscriber use the first,  *)
(* a reader and the publisher the second.                                  *)

KeySymbols ==
    {<<"b", "t", "c">>, <<"B", "T", "C">>, <<" ", "B", "t", "c", " ">>, <<"e", "t", "h">>}

KeyIntervals ==
    {<<"1", "m">>, <<" ", "1", "M">>, <<"1", "d">>, <<"1", "D", " ">>, <<>>, <<" ">>}

KeySpellings == KeySymbols \X KeyIntervals

KeysUnchanged ==
    UNCHANGED <<script, ingVars, heap, store_ref, held, lastMsg, upstream, shutdown,
                lastIn, lock, propVars>>

\* A candle is written under spelling a, and w1 subscribes under it, by
\* subscribe or by set_subscriptions.
KeysWrite ==
    \E a \in KeySpellings :
        /\ probe.op = "none"
        /\ append_candle_memory("c1", a[1], a[2], Candle(1, 1))
        /\ \/ subscribe("w1", a[1], a[2])
           \/ set_subscriptions("w1", <<a>>)
        /\ probe' = [op |-> "written", a |-> a]
        /\ KeysUnchanged

\* The Series is read and the candle published under spelling b.
KeysRead ==
    \E b \in KeySpellings :
        /\ probe.op = "written"
        /\ get_candles(b[1], b[2], BUFFER_SIZE)
        /\ broadcast_candle(b[1], b[2], Candle(1, 1))
        /\ probe' = [op |-> "read", a |-> probe.a, b |-> b]
        /\ KeysUnchanged

KeysSendDone ==
    /\ probe.op = "read"
    /\ \E failed \in BOOLEAN : broadcast_send_done(failed)
    /\ probe' = [probe EXCEPT !.op = "sent"]
    /\ UNCHANGED <<storeVars, ingVars, heap, store_ref, held, lastMsg, upstream,
                   shutdown, lastIn, lock, propVars>>

NextKeys == KeysWrite \/ KeysRead \/ KeysSendDone

SpecKeys == InitReg /\ [][NextKeys]_vars

\* The spelling without its case and its surrounding whitespace.
Fold(s) == str_lower(str_strip(s))

\* Two spellings that differ in letter case and surrounding whitespace only.
SameSpelling(a, b) == Fold(a[1]) = Fold(b[1]) /\ Fold(a[2]) = Fold(b[2])

\* The reader found the written Series under its key, and the publisher
\* found the subscriber under the pair that names that key.
KeysAgree ==
    /\ StoreKeys = {last.key}
    /\ last.result = <<Candle(1, 1)>>
    /\ bc.pc = "sending" /\ bc.cur = "w1"
    /\ DOMAIN subscribers = {bc.key}
    /\ <<"candles:">> \o bc.key[1] \o <<":">> \o bc.key[2] = last.key

----------------------------------------------------------------------------
(* main.lifespan and bootstrap_all, pair by pair: the history requests of  *)
(* asyncio.gather in any order, the reads of the verification loop, then   *)
(* the stream task.  A Redis store may hold Series of an earlier run.      *)

\* config.SYMBOLS x config.INTERVALS, here two pairs.
ConfiguredPairs == {<<<<"B", "T", "C">>, <<"1", "m">>>>, <<<<"E", "T", "H">>, <<"1", "m">>>>}

PairKey(p) == build_candle_key(p[1], p[2])

\* A Series left in Redis by an earlier run, under every configured pair.
EarlierRun ==
    [k \in {PairKey(p) : p \in ConfiguredPairs} |-> json_dumps(<<Candle(60, 2)>>)]

\* bootstrap_all, lines 127-132: one bootstrap_symbol_interval per pair is
\* gathered.  requests counts the history requests of a pair, outcome is
\* what became of it, before and fetched are the Series at the start and
\* the candles the endpoint returned.
Bootstrapping ==
    [pc |-> "bootstrap", pending |-> ConfiguredPairs,
     requests |-> [p \in ConfiguredPairs |-> 0],
     outcome |-> [p \in ConfiguredPairs |-> "none"],
     before |-> [p \in ConfiguredPairs |-> Series(PairKey(p))],
     fetched |-> [p \in ConfiguredPairs |-> <<>>]]

\* Mutant of BootAfterFailure: the failure of one pair ends the others.
BootAfterFailure_Abort(g, p) ==
    [g EXCEPT !.pending = {}, !.requests[p] = @ + 1, !.outcome[p] = "failed"]

\* bootstrap_symbol_interval, lines 74-76: the request failed, the
\* coroutine of this pair returns.
BootAfterFailure(g, p) ==
    [g EXCEPT !.pending = @ \ {p}, !.requests[p] = @ + 1, !.outcome[p] = "failed"]

\* bootstrap_symbol_interval, lines 77-88: the rows are stored.
BootAfterSuccess(g, p, candles, stored) ==
    [g EXCEPT !.pending = @ \ {p}, !.requests[p] = @ + 1,
              !.outcome[p] = IF stored THEN "ok" ELSE "not stored",
              !.fetched[p] = candles]

\* Mutant of GatherDone: the lifespan does not wait for the gather.
GatherDone_NoWait(g) == TRUE

\* bootstrap_all, line 132: "await asyncio.gather(...)" is over.
GatherDone(g) == g.pending = {}

bootstrap_all_gather ==
    /\ ing.pc = "startup"
    /\ ing' = Bootstrapping
    /\ UNCHANGED <<storeVars, regVars, clock, auxVars>>

bootstrap_symbol_interval(p) ==
    /\ ing.pc = "bootstrap"
    /\ p \in ing.pending
    /\ LET candles == RowsToCandles(KlinesLatest(RestLimit))
       IN  \/ /\ set_candles(p[1], p[2], candles)
              /\ ing' = BootAfterSuccess(ing, p, candles, last'.ok)
           \/ /\ ing' = BootAfterFailure(ing, p)
              /\ UNCHANGED <<useMemory, memory_store, redis_db, cl, last, inserted,
                             tainted, track>>
    /\ UNCHANGED <<script, regVars, clock, auxVars>>

BootstrapPair == \E p \in ConfiguredPairs : bootstrap_symbol_interval(p)

\* bootstrap_all, lines 133-140: the verification loop begins.
bootstrap_all_gathered ==
    /\ ing.pc = "bootstrap"
    /\ GatherDone(ing)
    /\ ing' = [ing EXCEPT !.pc = "verify", !.pending = ConfiguredPairs]
    /\ UNCHANGED <<storeVars, regVars, clock, auxVars>>

\* One get_candles(sym, iv, 5) of the verification loop.
bootstrap_all_verify ==
    /\ ing.pc = "verify"
    /\ \E p \in ing.pending :
          /\ get_candles(p[1], p[2], MaxLimit)
          /\ ing' = [ing EXCEPT !.pending = @ \ {p}]
    /\ UNCHANGED <<script, regVars, clock, auxVars>>

\* main.lifespan, line 37: asyncio.create_task(run_binance_ws()).
lifespan_create_task ==
    /\ ing.pc = "verify"
    /\ ing.pending = {}
    /\ ing' = Disconnected("none", FALSE)
    /\ UNCHANGED <<storeVars, regVars, clock, auxVars>>

InitBoot ==
    /\ InitRegistry
    /\ InitIngestor
    /\ InitAux
    /\ useMemory \in BOOLEAN
    /\ memory_store = EmptyDict
    /\ redis_db \in IF useMemory THEN {EmptyDict} ELSE {EmptyDict, EarlierRun}
    /\ last = [op |-> "none"]
    /\ inserted = {}
    /\ tainted = {}
    /\ track = "ingest"
    /\ cl = [t \in {"c1"} |-> Idle]
    /\ script = NoScript

NextBoot ==
    bootstrap_all_gather \/ BootstrapPair \/ bootstrap_all_gathered
    \/ bootstrap_all_verify \/ lifespan_create_task
    \/ ws_connect \/ ws_connect_ok \/ ws_connect_fail \/ ws_error \/ ws_clean_close
    \/ backoff_done \/ RecvMessage \/ gap_bootstrap \/ gap_reread
    \/ ingest_append_memory \/ ingest_append_get \/ ingest_append_set
    \/ ingest_broadcast

SpecBoot == InitBoot /\ [][NextBoot]_vars

\* C22: when the gather of bootstrap_all is over, every configured pair has
\* had exactly one history request; a pair whose request failed has the
\* Series it had before, and a pair whose request succeeded (and whose
\* store write worked) has the fetched candles as its Series, whatever
\* became of the other pairs.
C22_BootstrapIsolatesFailures ==
    (ing.pc \in {"bootstrap", "verify"} /\ (ing.pc = "bootstrap" => ing.pending = {})) =>
        \A p \in ConfiguredPairs :
            /\ ing.requests[p] = 1
            /\ ing.outcome[p] = "failed" => Series(PairKey(p)) = ing.before[p]
            /\ ing.outcome[p] = "ok" => Series(PairKey(p)) = ing.fetched[p]

\* C22 witness: one pair's request failed and left the Series of the earlier
\* run, the other pair's succeeded and replaced it.
C22_Witness ==
    /\ ing.pc = "verify"
    /\ \E p, q \in ConfiguredPairs :
          /\ ing.outcome[p] = "failed" /\ Series(PairKey(p)) = <<Candle(60, 2)>>
          /\ ing.outcome[q] = "ok" /\ Series(PairKey(q)) # <<Candle(60, 2)>>
          /\ Series(PairKey(q)) # <<>>

\* C30: as long as the lifespan is in bootstrap_all no upstream connection
\* is open and no message has been taken, and the stream task is created
\* only when every configured pair has had its history request answered.
C30_BootstrapBeforeIngest ==
    /\ [](ing.pc \in BootPcs => (upstream = 0 /\ lastIn.op = "none"))
    /\ [][(ing.pc \in BootPcs /\ ing'.pc \notin BootPcs) =>
             (\A p \in ConfiguredPairs : ing.outcome[p] # "none")]_vars

\* C30 witness: a live message is being handled after a bootstrap in which
\* one pair failed.
C30_Witness ==
    /\ ing.pc = "append" /\ upstream = 1
    /\ lastIn.op = "message"
    /\ Series(PairKey(<<<<"E", "T", "H">>, <<"1", "m">>>>)) # <<>>
    /\ ing.tail0 = 0

----------------------------------------------------------------------------
(* The loop in runs where every history request succeeds, on the memory    *)
(* store: the Series is never empty after the bootstrap.                   *)

InitGap ==
    /\ InitIngest
    /\ useMemory

NextGap ==
    bootstrap_all_ok \/ ws_connect \/ ws_connect_ok \/ ws_connect_fail \/ ws_error
    \/ ws_clean_close \/ backoff_done \/ RecvMessage \/ gap_fetch_ok
    \/ ingest_append_memory \/ ingest_broadcast \/ Tick

SpecGap == InitGap /\ [][NextGap]_vars

\* Consecutive candles are in order and one step of the interval apart.
GapFree(series, step) ==
    \A i \in 1..(Len(series) - 1) :
        /\ series[i].time < series[i + 1].time
        /\ series[i + 1].time - series[i].time <= step

\* C23: when every history request succeeds and returns the candles of its
\* range up to the row cap, the Series of the stream is gap-free after the
\* bootstrap and after any sequence of live events.
C23_SeriesStaysGapFree == GapFree(Series(BTC1m), 60)

----------------------------------------------------------------------------
(* Gap detection and the lazy bootstrap, message by message (SpecIngest).  *)

\* The message found a Series with a tail and met no store failure.
OnNonEmptySeries == ing.tail0 > 0 /\ ~ing.storeFail

\* C25: for a message that finds tail time last_ts, step S: if new_ts >
\* last_ts + S the history endpoint is asked once, for [last_ts + S,
\* new_ts - S], and the candles it returned are all upserted before the
\* candle of the message; if new_ts <= last_ts + S it is not asked.
C25_GapRequestedOnceAndFilledFirst ==
    LET S     == 60
        key   == build_candle_key(ing.symbol, ing.interval)
    IN  /\ (ing.pc \in {"append", "broadcast"} /\ OnNonEmptySeries) =>
              IF ing.candle.time > ing.tail0 + S
              THEN ing.ranges = <<<<ing.tail0 + S, ing.candle.time - S>>>>
              ELSE ing.ranges = <<>>
        /\ (ing.pc = "append" /\ OnNonEmptySeries /\ ing.rest = "ok") =>
              IF Len(ing.todo) > 1
              THEN ing.candle.time \notin SeriesTimes(key)
              ELSE ing.todo = <<ing.candle>> /\ ing.rows \subseteq SeriesTimes(key)

\* C25 witness: a gap of two buckets was requested and filled, and the
\* candle of the message is the one upsert left.
C25_Witness ==
    /\ ing.pc = "append" /\ OnNonEmptySeries /\ ing.rest = "ok"
    /\ ing.ranges = <<<<ing.tail0 + 60, ing.tail0 + 120>>>>
    /\ ing.rows = {ing.tail0 + 60, ing.tail0 + 120}
    /\ ing.todo = <<ing.candle>>

\* C26: a message that finds its Series empty makes the loop run the
\* most-recent bootstrap first: when the bootstrap succeeded the Series
\* is its result before anything is upserted, and whether it succeeded or
\* failed the candle of the message is in the Series once the upserts are
\* done.
C26_EmptySeriesIsBootstrappedFirst ==
    LET key == build_candle_key(ing.symbol, ing.interval)
        new == ing.pc \in {"gap_reread", "gap_fetch", "append", "broadcast"}
                  /\ ing.tail0 = 0 /\ ~ing.storeFail
    IN  /\ new => ing.boot # "none"
        /\ (new /\ ing.pc = "gap_reread" /\ ing.boot = "ok") =>
              Series(key) = ing.booted /\ ing.booted # <<>>
        /\ (new /\ ing.pc = "gap_reread" /\ ing.boot = "failed") => Series(key) = <<>>
        /\ (new /\ ing.pc = "broadcast") => ing.candle.time \in SeriesTimes(key)

\* C26 witness: the bootstrap for an empty Series failed and the candle of
\* the message has been upserted all the same.
C26_Witness ==
    /\ ing.pc = "broadcast"
    /\ ing.tail0 = 0 /\ ~ing.storeFail
    /\ ing.boot = "failed"
    /\ Series(build_candle_key(ing.symbol, ing.interval)) = <<ing.candle>>

----------------------------------------------------------------------------
(* Errors while a message is handled, and one message at a time (SpecLife). *)

\* The loop is handling a message on an open connection.
InHandling == ConnState(ing) = "Connected" /\ ing.pc \notin {"recv", "cancelled"}

\* C21: the step that takes a message, and every step of its handling,
\* leaves the loop on the same open connection, whatever fails in it (the
\* decoding, a history request, a store call, a send); and the handling of
\* a message ends with the loop waiting for the next one, unless shutdown
\* cancels the task.
C21_ErrorsDoNotEndTheLoop ==
    /\ [][(lastIn' # lastIn \/ InHandling) =>
             (ConnState(ing') = "Connected" /\ upstream' = upstream)]_vars
    /\ InHandling ~> (ing.pc = "recv" \/ shutdown)

\* C21 witness: the loop waits for the next message on the same connection
\* after a message during which the history request failed, a store call
\* failed and a send failed.
C21_Witness ==
    /\ ing.pc = "recv" /\ upstream = 1 /\ ~shutdown
    /\ lastIn.op = "message" /\ lastIn.fate = "done"
    /\ lastIn.boot = "failed" /\ lastIn.storeFail
    /\ lastSend.op = "returned" /\ lastSend.dead # {}

\* C27: a message is taken only when the loop waits in "async for" with no
\* store call and no broadcast of its own in progress, and the handling of
\* the message before it has ended: it was skipped, it raised, or its
\* broadcast_candle has returned.
C27_OneMessageAtATime ==
    [][(lastIn' # lastIn /\ lastIn'.fate # "done") =>
          /\ ing.pc = "recv"
          /\ bc.pc = "idle"
          /\ \A t \in DOMAIN cl : cl[t].pc = "idle"
          /\ lastIn.op = "message" => lastIn.fate # "handling"]_vars

\* C27 witness: a message is being handled after another whose candle was
\* stored and published.
C27_Witness ==
    /\ ing.pc = "broadcast"
    /\ lastIn.op = "message" /\ lastIn.fate = "handling"
    /\ lastSend.op = "returned" /\ lastSend.attempted # {}
    /\ ing.tail0 = ing.candle.time

----------------------------------------------------------------------------
(* The registry at the grain of its lock.  Between the entry of an "async  *)
(* with _lock" block, its body and its exit other tasks may run here: more *)
(* interleavings than the event loop allows, so what holds here holds      *)
(* there.  The stream task is "publisher", the client handlers are         *)
(* connections.                                                            *)

\* "async with _lock" entered by who for call; its body has not run yet.
Locked(who, call) == [by |-> who, call |-> call, done |-> FALSE]

\* Mutant of Holds: the body runs whoever holds the lock.
Holds_Unlocked(l, who, call) == TRUE

\* who is inside the "async with _lock" block of call, before its body.
Holds(l, who, call) == l = Locked(who, call)

\* Mutant of LockAfterSnapshot: the lock is kept for the sends.
LockAfterSnapshot_Kept(l) == l

\* broadcast_candle, lines 150-151: the block of the snapshot is left.
LockAfterSnapshot(l) == Free

LockCalls == {"subscribe", "unsubscribe", "set_subscriptions", "unsubscribe_all"}

LockPair == <<<<"b", "t", "c">>, <<"1", "m">>>>

LockUnchanged == UNCHANGED <<storeVars, ingVars, heap, store_ref, held, lastMsg,
                             upstream, shutdown, lastIn, probe, propVars>>

\* A handler reaches "async with _lock" (lines 37, 46, 61, 80) and enters.
reg_acquire(ws, call) ==
    /\ lock = Free
    /\ lock' = Locked(ws, call)
    /\ UNCHANGED regVars
    /\ LockUnchanged

\* The body of the block.
reg_body(ws, call) ==
    /\ Holds(lock, ws, call)
    /\ CASE call = "subscribe" -> subscribe(ws, LockPair[1], LockPair[2])
         [] call = "unsubscribe" -> unsubscribe(ws, LockPair[1], LockPair[2])
         [] call = "set_subscriptions" -> set_subscriptions(ws, <<LockPair>>)
         [] call = "unsubscribe_all" -> unsubscribe_all(ws)
    /\ lock' = [by |-> ws, call |-> call, done |-> TRUE]
    /\ LockUnchanged

\* The block is left.
reg_release(ws) ==
    /\ lock.by = ws
    /\ lock.done
    /\ lock' = Free
    /\ UNCHANGED regVars
    /\ LockUnchanged

LockViewer ==
    \E call \in LockCalls :
        reg_acquire("w1", call) \/ reg_body("w1", call) \/ reg_release("w1")

PubUnchanged == UNCHANGED <<storeVars, clock, heap, store_ref, held, lastMsg,
                            upstream, shutdown, probe, propVars>>

\* broadcast_candle, line 150: the stream task enters the block of the
\* snapshot.
pub_acquire ==
    /\ ing.pc = "broadcast"
    /\ lock = Free
    /\ lock' = Locked("publisher", "snapshot")
    /\ UNCHANGED <<regVars, ing, lastIn>>
    /\ PubUnchanged

\* Lines 151-158: the snapshot, the exit of the block, the return when
\* nobody subscribes, the first send_text begun.
pub_snapshot ==
    /\ ing.pc = "broadcast"
    /\ Holds(lock, "publisher", "snapshot")
    /\ broadcast_candle(ing.symbol, ing.interval, ing.candle)
    /\ lock' = LockAfterSnapshot(lock)
    /\ ing' = AfterPublish(ing, bc'.pc = "idle")
    /\ IF bc'.pc = "idle" THEN NoteDone(ing) ELSE UNCHANGED lastIn
    /\ PubUnchanged

\* Lines 157-162: a send_text returns or raises; the next send begins, or
\* the call returns, or it goes on to the cleanup of the dead sockets.
pub_send_done ==
    /\ ing.pc = "broadcasting"
    /\ bc.pc = "sending"
    /\ \E failed \in BOOLEAN :
          LET b == AfterSend(bc, failed)
          IN  IF b.todo # {}
              THEN /\ \E ws \in b.todo :
                        /\ bc' = [b EXCEPT !.cur = ws, !.todo = @ \ {ws},
                                           !.attempted = @ \cup {ws}]
                        /\ BeginSend(ws, b.key, b.snapIntent)
                   /\ UNCHANGED <<ing, lastIn>>
              ELSE IF b.dead = {}
              THEN /\ bc' = NoBroadcast
                   /\ lastSend' = Returned(b.key, b.sockets, b.elsewhere,
                                           b.attempted, b.dead)
                   /\ ing' = AfterPublish(ing, TRUE)
                   /\ NoteDone(ing)
              ELSE /\ bc' = [b EXCEPT !.pc = "cleanup"]
                   /\ UNCHANGED <<lastSend, ing, lastIn>>
    /\ UNCHANGED <<subscribers, connection_subs, intent, lock>>
    /\ PubUnchanged

\* Line 163: the stream task enters the block of the cleanup.
pub_cleanup_acquire ==
    /\ ing.pc = "broadcasting"
    /\ bc.pc = "cleanup"
    /\ lock = Free
    /\ lock' = Locked("publisher", "cleanup")
    /\ UNCHANGED <<regVars, ing, lastIn>>
    /\ PubUnchanged

\* Lines 164-169: the dead sockets leave the entry of the key, the block is
\* left and broadcast_candle returns.
pub_cleanup ==
    /\ ing.pc = "broadcasting"
    /\ bc.pc = "cleanup"
    /\ Holds(lock, "publisher", "cleanup")
    /\ subscribers' = SubscribersAfterCleanup(bc.key, bc.dead)
    /\ bc' = NoBroadcast
    /\ lastSend' = Returned(bc.key, bc.sockets, bc.elsewhere, bc.attempted, bc.dead)
    /\ lock' = Free
    /\ ing' = AfterPublish(ing, TRUE)
    /\ NoteDone(ing)
    /\ UNCHANGED <<connection_subs, intent>>
    /\ PubUnchanged

Publisher == pub_acquire \/ pub_snapshot \/ pub_send_done \/ pub_cleanup_acquire
             \/ pub_cleanup

InitLock ==
    /\ InitStore
    /\ track = "ingest"
    /\ cl = [t \in {"c1"} |-> Idle]
    /\ script = NoScript

NextLock ==
    bootstrap_all \/ ws_connect \/ ws_connect_ok \/ ws_connect_fail \/ ws_error
    \/ ws_clean_close \/ backoff_done \/ RecvMessage \/ gap_bootstrap \/ gap_reread
    \/ ingest_append_memory \/ ingest_append_get \/ ingest_append_set
    \/ Publisher \/ LockViewer \/ lifespan_cancel \/ ws_cancelled

SpecLock == InitLock /\ [][NextLock]_vars

\* C28: the subscriber maps change only in a step of a task that holds the
\* registry lock; the snapshot of a broadcast is taken by the stream task
\* while it holds the lock; and while a message is being sent to a
\* subscriber the stream task does not hold the lock.
C28_MutationsUnderLockSendsOutside ==
    /\ [][(subscribers' # subscribers \/ connection_subs' # connection_subs)
             => (lock.by # "nobody" /\ ~lock.done)]_vars
    /\ [][(bc.pc # "sending" /\ bc'.pc = "sending")
             => lock = Locked("publisher", "snapshot")]_vars
    /\ [](bc.pc = "sending" => lock.by # "publisher")

\* A handler has changed the maps inside its block while the stream task is
\* in a send of a broadcast whose snapshot held that connection.
C28_Witness ==
    /\ bc.pc = "sending"
    /\ "w1" \in bc.sockets
    /\ lock.by = "w1"
    /\ lock.done
    /\ lock.call = "unsubscribe_all"
    /\ "w1" \notin DOMAIN connection_subs

----------------
(* Cancellation of the stream task while the exchange goes on opening      *)
(* buckets: the Series fill up to their capacity, the store is Redis, whose *)
(* calls suspend, and a client subscribes.                                  *)

InitCancel ==
    /\ InitStore
    /\ ~useMemory
    /\ track = "ops"
    /\ cl = [t \in {"c1"} |-> Idle]
    /\ script = NoScript

CancelViewer ==
    reg_acquire("w1", "subscribe") \/ reg_body("w1", "subscribe") \/ reg_release("w1")

NextCancel ==
    bootstrap_all \/ ws_connect \/ ws_connect_ok \/ ws_error \/ backoff_done
    \/ RecvMessage \/ gap_bootstrap \/ gap_reread \/ gap_fetch
    \/ ingest_append_get \/ ingest_append_set
    \/ Publisher \/ CancelViewer \/ Tick \/ lifespan_cancel \/ ws_cancelled

SpecCancel == InitCancel /\ [][NextCancel]_vars

\* C29: once the cancelled stream task has stopped, wherever it was
\* suspended when the cancellation reached it, it does not hold the registry
\* lock, and the Series of every key has strictly increasing times (sorted,
\* without duplicates) and at most BUFFER_SIZE candles.
C29_CancelLeavesLockAndSeriesSound ==
    ing.pc = "stopped" =>
        /\ lock.by # "publisher"
        /\ \A key \in StoreKeys :
              /\ StrictlyIncreasing(Series(key))
              /\ Len(Series(key)) <= BUFFER_SIZE

\* The task has stopped, cancelled in a send to a subscriber that began and
\* never returned, with the Series of the key at its capacity.
C29_Witness ==
    /\ ing.pc = "stopped"
    /\ lastSend.op = "send"
    /\ lastSend.conn = "w1"
    /\ lock = Free
    /\ Len(Series(BTC1m)) = BUFFER_SIZE

----------------------------------------------------------------------------
(* utils.py: the normalizers applied to their own results.                 *)

\* C40: normalize_symbol and normalize_interval return a normalized value
\* unchanged, for every spelling including the empty and the whitespace-only
\* ones, so build_candle_key gives a raw pair and its normalized form the
\* same key.
C40_NormalizeIsIdempotent ==
    probe.op = "written" =>
        LET symbol   == probe.a[1]
            interval == probe.a[2]
        IN  /\ normalize_symbol(normalize_symbol(symbol)) = normalize_symbol(symbol)
            /\ normalize_interval(normalize_interval(interval))
                  = normalize_interval(interval)
            /\ build_candle_key(normalize_symbol(symbol), normalize_interval(interval))
                  = build_candle_key(symbol, interval)

----------------------------------------------------------------------------
(* The two maps of the registry, _subscribers and _connection_subs.        *)

\* The keys under which either map holds something.
RegistryKeys == DOMAIN subscribers \cup UNION {connection_subs[c] : c \in DOMAIN connection_subs}

\* C33: in every state, a connection is in the subscriber set of a key
\* exactly when the key is in the key set recorded for the connection.
C33_MapsAgree ==
    \A c \in Conns, k \in RegistryKeys :
        (k \in DOMAIN subscribers /\ c \in subscribers[k])
            <=> (c \in DOMAIN connection_subs /\ k \in connection_subs[c])

----------------
(* The registry as the server drives it: the messages and the close of     *)
(* /ws/candles clients, the broadcasts of the stream task, and unsubscribe, *)
(* which no handler calls.                                                  *)

\* A subscriptions list that is empty, one whose items are all skipped, one
\* that leaves a pair, and a single subscription.
ServeMessages ==
    {[subscriptions |-> <<>>],
     [subscriptions |-> <<[symbol |-> <<"e", "t", "h">>, interval |-> <<>>]>>],
     [subscriptions |-> <<[symbol |-> <<" ", "b", "t", "c">>, interval |-> <<"1", "M">>]>>],
     [symbol |-> <<"e", "t", "h">>, interval |-> <<"1", "m">>]}

ServeMessage == \E conn \in Conns, msg \in ServeMessages : websocket_candles_message(conn, msg)

ServeUnsubscribe ==
    /\ \E ws \in Conns : unsubscribe(ws, <<"e", "t", "h">>, <<"1", "m">>)
    /\ UNCHANGED <<storeVars, ingVars, auxVars>>

NextServe == ServeMessage \/ ClientClose \/ ServeUnsubscribe \/ Broadcast \/ SendDone

SpecServe == InitReg /\ [][NextServe]_vars

\* C34: in every state, every key of _subscribers has a connection and
\* every connection of _connection_subs has a key.
C34_NoEmptyEntries ==
    /\ \A k \in DOMAIN subscribers : subscribers[k] # {}
    /\ \A c \in DOMAIN connection_subs : connection_subs[c] # {}

\* C34 witness: a broadcast whose every send failed has returned and the
\* entry of its key is gone, and a client has sent an empty subscriptions
\* list.
C34_Witness ==
    /\ lastSend.op = "returned"
    /\ lastSend.dead # {} /\ lastSend.dead = lastSend.sockets
    /\ lastSend.key \notin DOMAIN subscribers
    /\ lastMsg.op = "subscriptions" /\ lastMsg.items = <<>>
    /\ DOMAIN connection_subs # {}

----------------------------------------------------------------------------
(* set_subscriptions in two steps inside its lock scope, the removal of    *)
(* the old keys and the addition of the new ones, against the snapshots of *)
(* the publisher.  probe follows the latest call: its connection, the keys *)
(* it had, the keys it asked for, and whether the call is still running.   *)

SetUnchanged == UNCHANGED <<storeVars, ingVars, heap, store_ref, held, lastMsg,
                            upstream, shutdown, lastIn, propVars>>

\* Keys of a subscriptions list, line 71.
KeysOfList(subscriptions) ==
    {_norm_key(subscriptions[i][1], subscriptions[i][2]) : i \in 1..Len(subscriptions)}

\* Line 61: the handler enters "async with _lock".
setsub_enter(ws, subscriptions) ==
    /\ lock = Free
    /\ lock' = [by |-> ws, call |-> "set_subscriptions", done |-> FALSE,
                keys |-> KeysOfList(subscriptions)]
    /\ probe' = [op |-> "set", conn |-> ws, old |-> KeysOf(ws),
                 keys |-> KeysOfList(subscriptions), running |-> TRUE]
    /\ UNCHANGED regVars
    /\ SetUnchanged

\* Lines 62-70: the connection leaves the sets of its old keys.
setsub_remove(ws) ==
    /\ lock.by = ws /\ lock.call = "set_subscriptions" /\ ~lock.done
    /\ subscribers' = DiscardFromAll(subscribers, KeysOf(ws), ws)
    /\ connection_subs' = DictDel(connection_subs, ws)
    /\ lock' = [lock EXCEPT !.done = TRUE]
    /\ UNCHANGED <<bc, intent, lastSend, probe>>
    /\ SetUnchanged

\* Lines 71-74 and the exit of the block: the connection enters the sets of
\* its new keys.
setsub_add(ws) ==
    /\ lock.by = ws /\ lock.call = "set_subscriptions" /\ lock.done
    /\ connection_subs' = DictPut(connection_subs, ws, lock.keys)
    /\ subscribers' = AddToAll(subscribers, lock.keys, ws)
    /\ intent' = [intent EXCEPT ![ws] = [replaced |-> TRUE, keys |-> lock.keys]]
    /\ lastSend' = [op |-> "none"]
    /\ lock' = Free
    /\ probe' = IF probe.op = "set" /\ probe.conn = ws
                THEN [probe EXCEPT !.running = FALSE] ELSE probe
    /\ UNCHANGED bc
    /\ SetUnchanged

\* Mutant of MaySnapshot: the snapshot is taken without the lock.
MaySnapshot_Unlocked(l) == TRUE

\* broadcast_candle, lines 150-151: the snapshot is taken inside the block.
MaySnapshot(l) == l = Locked("publisher", "snapshot")

\* Line 150: the publisher enters the block of the snapshot.
snap_enter ==
    /\ bc.pc = "idle"
    /\ lock = Free
    /\ lock' = Locked("publisher", "snapshot")
    /\ UNCHANGED <<regVars, probe>>
    /\ SetUnchanged

\* Lines 151-158: the snapshot, the exit of the block, the first send begun.
snap_take ==
    /\ MaySnapshot(lock)
    /\ \E p \in Published : broadcast_candle(p[1], p[2], Candle(1, 1))
    /\ lock' = IF lock.by = "publisher" THEN LockAfterSnapshot(lock) ELSE lock
    /\ UNCHANGED probe
    /\ SetUnchanged

\* Lines 157-169: a send returns or raises; the cleanup of the dead sockets
\* needs the lock.  A connection whose send failed is no longer followed.
snap_send_done ==
    /\ bc.pc = "sending"
    /\ \E failed \in BOOLEAN :
          /\ (AfterSend(bc, failed).todo = {} /\ AfterSend(bc, failed).dead # {})
                => lock = Free
          /\ broadcast_send_done(failed)
    /\ probe' = IF bc'.pc = "idle" /\ probe.op = "set" /\ probe.conn \in lastSend'.dead
                THEN [op |-> "none"] ELSE probe
    /\ UNCHANGED lock
    /\ SetUnchanged

SetSubs == \E ws \in Conns, l \in SubLists :
              setsub_enter(ws, l) \/ setsub_remove(ws) \/ setsub_add(ws)

NextSet == SetSubs \/ snap_enter \/ snap_take \/ snap_send_done

SpecSet == InitReg /\ [][NextSet]_vars

\* A step in which broadcast_candle takes its snapshot.
SnapshotStep ==
    /\ bc.pc = "idle"
    /\ \/ bc'.pc = "sending"
       \/ /\ lastSend'.op = "returned" /\ lastSend'.sockets = {}
          /\ (lastSend' # lastSend \/ lock.by = "publisher")

\* C35: when broadcast_candle takes its snapshot for a key that the latest
\* set_subscriptions call found among the connection's keys and was given
\* again, while that call is running or after it, the connection is in the
\* snapshot.
C35_NoPublishMissedDuringReplacement ==
    [][(SnapshotStep /\ probe.op = "set"
          /\ (IF bc'.pc = "sending" THEN bc'.key ELSE lastSend'.key)
                \in (probe.old \cap probe.keys))
         => (bc'.pc = "sending" /\ probe.conn \in bc'.sockets)]_vars

\* C35 witness: a send of a broadcast to the connection is under way while
\* the connection is between the two steps of a set_subscriptions call that
\* keeps the key; the snapshot was taken before the call.
C35_Witness ==
    /\ probe.op = "set" /\ probe.running
    /\ lock.by = probe.conn /\ lock.done
    /\ bc.pc = "sending"
    /\ bc.key \in (probe.old \cap probe.keys)
    /\ probe.conn \in bc.sockets
    /\ probe.conn \notin DOMAIN connection_subs

----------------------------------------------------------------------------
(* The store when a Redis request raises.                                  *)

\* C32: a store call whose Redis request fails returns normally: get_candles
\* returns the empty list, append_candle and set_candles leave every stored
\* Series as it was, and the caller is free for its next call.
C32_BackendFailureIsAbsorbed ==
    [][(last' # last /\ "ok" \in DOMAIN last' /\ ~last'.ok) =>
          /\ last'.op \in {"get_candles", "append_candle", "set_candles"}
          /\ last'.op = "get_candles" => last'.result = <<>>
          /\ UNCHANGED <<memory_store, redis_db>>
          /\ \A t \in DOMAIN cl : cl'[t].pc = "idle"]_vars

\* C32 witness: the SET of an append_candle has failed on a Series that
\* holds candles; the candle of the call is not in the Series.
C32_Witness ==
    /\ ~useMemory
    /\ last.op = "append_candle" /\ ~last.ok
    /\ Len(last.before) >= 2
    /\ Series(last.key) = last.before
    /\ \A i \in 1..Len(last.before) : last.before[i].time # last.candle.time
    /\ cl["c1"].pc = "idle"

----------------------------------------------------------------------------
(* The store at the moment of a publication.                               *)

\* The Series of the key a broadcast publishes under holds its candle.
PublishedIsStored ==
    \E i \in 1..Len(Series(build_candle_key(bc.key[1], bc.key[2]))) :
        Series(build_candle_key(bc.key[1], bc.key[2]))[i] = bc.candle

\* C31: while the stream task sends a candle to the subscribers of a key,
\* the Series of the key holds a candle with the same time and values.
C31_WriteBeforePublish ==
    (ing.pc = "broadcasting" /\ bc.pc = "sending") => PublishedIsStored

----------------------------------------------------------------------------
(* The stream with the closing update of each bucket.  While the          *)
(* connection is up the exchange sends the closing update of a bucket      *)
(* before it opens the next one; a connection that is down misses it.      *)

KlineUpdate(close, closed) ==
    [stream |-> <<"b", "t", "c">> \o KlineSep \o <<"1", "m">>,
     data |-> [k |-> [t |-> clock * 60000, c |-> close, x |-> closed]]]

\* An update of the open bucket and its closing update.
FinalMessages == {KlineUpdate(2, FALSE), KlineUpdate(3, TRUE)}

FinalRecv == \E msg \in FinalMessages : recv_message(msg)

\* The loop has taken the closing update of the bucket now open.
ClosingTaken == lastIn.op = "message" /\ lastIn.msg = KlineUpdate(3, TRUE)

FinalTick == (upstream = 0 \/ ClosingTaken) /\ Tick

NextFinal ==
    bootstrap_all \/ ws_connect \/ ws_connect_ok \/ ws_error \/ backoff_done
    \/ FinalRecv \/ gap_bootstrap \/ gap_reread \/ gap_fetch
    \/ ingest_append_memory \/ ingest_append_get \/ ingest_append_set
    \/ ingest_broadcast \/ FinalTick

SpecFinal == InitLife /\ [][NextFinal]_vars

\* C36: in every Series, every candle before the tail is final: none of
\* them is a candle of an update that left its bucket open.
C36_OnlyTailInProgress ==
    \A key \in StoreKeys :
        \A i \in 1..(Len(Series(key)) - 1) : Series(key)[i].is_closed # "False"

----------------------------------------------------------------------------
(* The publications of the loop: the exchange's clock advances, so there   *)
(* are gaps to fill, and a client subscribes.                              *)

NextPublish ==
    bootstrap_all \/ ws_connect \/ ws_connect_ok \/ ws_error \/ backoff_done
    \/ RecvMessage \/ gap_bootstrap \/ gap_reread \/ gap_fetch
    \/ ingest_append_memory
    \/ ingest_broadcast \/ ingest_send_done \/ Tick \/ Viewer

\* The store is the dict of the process.
InitPublish == InitLife /\ useMemory

SpecPublish == InitPublish /\ [][NextPublish]_vars

\* The loop is handling the message it took last.
HandlingEvent == lastIn.op = "message" /\ lastIn.fate = "handling"

\* The candle and the key of the message the loop took last.
TriggerCandle == _kline_to_candle(lastIn.msg.data.k)

TriggerKey ==
    LET parts == str_split_once(lastIn.msg.stream, KlineSep)
    IN  <<normalize_symbol(parts[1]), normalize_interval(parts[2])>>

\* A step in which broadcast_candle is called: its first send begins, or it
\* returns at once because nobody subscribes.
BroadcastCalled ==
    /\ bc.pc = "idle"
    /\ \/ bc'.pc = "sending"
       \/ HandlingEvent /\ lastIn'.fate = "done"

\* C37: broadcast_candle is called only for the event being handled, with
\* the event's candle under the event's normalized key, never with a candle
\* of the bootstrap or of the gap fill; when the call returns the event is
\* done, and an event's handling ends only by the return of that call: one
\* call for each event.
C37_OneBroadcastPerEvent ==
    /\ [][BroadcastCalled =>
             /\ HandlingEvent
             /\ ing.pc = "broadcast"
             /\ ing.candle = TriggerCandle
             /\ bc'.pc = "sending" => (bc'.candle = TriggerCandle /\ bc'.key = TriggerKey)
             /\ bc'.pc = "idle" => lastSend'.key = TriggerKey]_vars
    /\ [][(bc.pc = "sending" /\ bc'.pc = "idle") =>
             (HandlingEvent /\ lastIn'.fate = "done" /\ ing'.pc = "recv")]_vars
    /\ [][(HandlingEvent /\ (lastIn' # lastIn \/ ing'.pc = "recv")) =>
             /\ lastIn'.fate = "done"
             /\ lastSend'.op = "returned" /\ lastSend'.key = TriggerKey
             /\ bc'.pc = "idle"]_vars

\* C37 witness: the candle of an event that came after a gap is being sent
\* to a subscriber; the candles of the gap are in the Series.
C37_Witness ==
    /\ HandlingEvent
    /\ bc.pc = "sending" /\ bc.candle = TriggerCandle
    /\ ing.rest = "ok" /\ Len(ing.ranges) = 1
    /\ Len(Series(BTC1m)) >= 3

----------------------------------------------------------------------------
(* The order of the messages each subscriber gets: two clients of the      *)
(* pair, and updates that differ within a bucket and from bucket to bucket;*)
(* the exchange sends the closing update of a bucket before the next opens.*)

Viewers ==
    /\ \E ws \in Conns : \/ subscribe(ws, <<"b", "t", "c">>, <<"1", "m">>)
                         \/ unsubscribe_all(ws)
    /\ UNCHANGED <<storeVars, ingVars, auxVars>>

NextOrder ==
    bootstrap_all \/ ws_connect \/ ws_connect_ok
    \/ FinalRecv \/ gap_bootstrap \/ gap_reread \/ gap_fetch
    \/ ingest_append_memory
    \/ ingest_broadcast \/ ingest_send_done \/ FinalTick \/ Viewers

SpecOrder == InitPublish /\ [][NextOrder]_vars

\* A step in which a send_text to a subscriber begins.
SendBegins ==
    /\ bc'.pc = "sending"
    /\ bc.pc = "sending" => bc' # bc

\* C38: every send to a subscriber carries the candle of the event the loop
\* took last, under that event's key, so the sends follow the order of the
\* events; the loop takes no event while a send is outstanding; and within
\* the one broadcast of an event no connection is sent to twice.
C38_SendsFollowEvents ==
    /\ [][SendBegins =>
             /\ HandlingEvent /\ lastIn' = lastIn
             /\ bc'.candle = TriggerCandle /\ bc'.key = TriggerKey
             /\ bc.pc = "idle" => ing.pc = "broadcast"
             /\ bc.pc = "sending" =>
                   /\ bc'.cur \notin bc.attempted
                   /\ bc'.attempted = bc.attempted \cup {bc'.cur}
                   /\ bc'.candle = bc.candle /\ bc'.key = bc.key]_vars
    /\ [][lastIn' # lastIn =>
             \/ bc.pc = "idle" /\ bc'.pc = "idle" /\ ing.pc \in {"recv", "broadcast"}
             \/ bc.pc = "sending" /\ bc'.pc = "idle" /\ lastIn'.fate = "done"]_vars

\* C38 witness: the closing update of the second bucket is being sent to a
\* client, the other client has been sent it already.
C38_Witness ==
    /\ bc.pc = "sending" /\ bc.attempted = Conns /\ bc.cur = "w1"
    /\ lastIn.msg = KlineUpdate(3, TRUE) /\ clock = 2
    /\ bc.candle = TriggerCandle
    /\ Len(Series(BTC1m)) >= 2

----------------------------------------------------------------------------
(* main.websocket_proposal, the handler of /ws/{symbol}, next to the loop: *)
(* the Series is read, the "historical" message is sent, and then the      *)
(* connection enters _proposal_subscribers.  Each await of the handler is  *)
(* a point where the stream task may run.  Nobody subscribes on            *)
(* /ws/candles here, so broadcast_candle returns at once.                  *)

\* limit=720 of a capacity of 1000: fewer candles than the Series can hold.
ProposalLimit == BUFFER_SIZE - 1

ProposalPaths == {<<" ", "b", "t", "c">>, <<"e", "t", "h">>}

\* main.py, lines 1018-1029: the rows of the "historical" message.
historical_data(candles) ==
    [i \in 1..Len(candles) |->
        [time |-> candles[i].time * 1000, close |-> candles[i].close,
         is_closed |-> "True"]]

\* ws_broadcast.py, lines 118-130: the "live_candle" message of a candle.
live_candle(key, candle) ==
    [type |-> "live_candle", symbol |-> key[1], time |-> candle.time * 1000,
     close |-> candle.close,
     is_closed |-> IF candle.is_closed = "absent" THEN "True" ELSE candle.is_closed]

subscribe_proposal(ws, symbol, interval) ==
    LET key == _norm_key(symbol, interval)
    IN  /\ proposal_subscribers' = SetDefaultAdd(proposal_subscribers, key, ws)
        /\ proposal_connection_subs' = SetDefaultAdd(proposal_connection_subs, ws, key)

unsubscribe_proposal_all(ws) ==
    LET keys == IF ws \in DOMAIN proposal_connection_subs
                THEN proposal_connection_subs[ws] ELSE {}
    IN  /\ proposal_subscribers' = DiscardFromAll(proposal_subscribers, keys, ws)
        /\ proposal_connection_subs' = DictDel(proposal_connection_subs, ws)

\* broadcast_candle_proposal up to its first send_text.
broadcast_candle_proposal(symbol, interval, candle) ==
    LET key     == _norm_key(symbol, interval)
        sockets == IF key \in DOMAIN proposal_subscribers
                   THEN proposal_subscribers[key] ELSE {}
    IN  /\ pbc.pc = "idle"
        /\ IF sockets = {}
           THEN pbc' = [pc |-> "idle"]
           ELSE \E ws \in sockets :
                   pbc' = [pc |-> "sending", key |-> key,
                           payload |-> live_candle(key, candle),
                           cur |-> ws, todo |-> sockets \ {ws}, dead |-> {}]
        /\ UNCHANGED <<proposal_subscribers, proposal_connection_subs>>

\* Lines 132-144: a send_text returns or raises; the next socket, or the
\* cleanup of the dead ones and the return.
proposal_send_done(failed) ==
    LET dead == IF failed THEN pbc.dead \cup {pbc.cur} ELSE pbc.dead
    IN  /\ pbc.pc = "sending"
        /\ IF pbc.todo # {}
           THEN /\ \E ws \in pbc.todo :
                      pbc' = [pbc EXCEPT !.cur = ws, !.todo = @ \ {ws}, !.dead = dead]
                /\ UNCHANGED proposal_subscribers
           ELSE /\ pbc' = [pc |-> "idle"]
                /\ proposal_subscribers' =
                      IF dead # {} /\ pbc.key \in DOMAIN proposal_subscribers
                         /\ proposal_subscribers[pbc.key] # {}
                      THEN IF proposal_subscribers[pbc.key] \ dead = {}
                           THEN DictDel(proposal_subscribers, pbc.key)
                           ELSE DictPut(proposal_subscribers, pbc.key,
                                        proposal_subscribers[pbc.key] \ dead)
                      ELSE proposal_subscribers
        /\ UNCHANGED proposal_connection_subs

ProposalUnchanged ==
    UNCHANGED <<script, regVars, ingVars, heap, store_ref, held, lastMsg, upstream,
                shutdown, lastIn, lock, probe>>

\* websocket_proposal, lines 1010-1016: the path is normalized, the
\* connection accepted; a symbol other than BTCUSDT gets an error and the
\* connection is closed.  The lifespan has started the stream task.
proposal_open ==
    /\ pw.pc = "closed"
    /\ ing.pc \notin BootPcs
    /\ \E path \in ProposalPaths :
          pw' = IF normalize_symbol(path) # <<"B", "T", "C">>
                THEN [pc |-> "left", reason |-> "error"]
                ELSE [pc |-> "accepted", symbol |-> normalize_symbol(path)]
    /\ UNCHANGED <<storeVars, proposal_subscribers, proposal_connection_subs, pbc>>
    /\ ProposalUnchanged

\* Lines 1017-1029: get_candles, and the rows made of its result.
proposal_read ==
    /\ pw.pc = "accepted"
    /\ get_candles(pw.symbol, <<"1", "m">>, ProposalLimit)
    /\ pw' = [pc |-> "historical", symbol |-> pw.symbol,
              data |-> historical_data(last'.result)]
    /\ UNCHANGED <<proposal_subscribers, proposal_connection_subs, pbc>>
    /\ ProposalUnchanged

\* Lines 1030-1031 and 1035-1039: send_json of the "historical" message
\* returns and the connection subscribes; or it raises and the handler ends
\* in its finally.
proposal_historical_sent ==
    /\ pw.pc = "historical"
    /\ \/ /\ subscribe_proposal("p1", pw.symbol, <<"1", "m">>)
          /\ pw' = [pc |-> "streaming", symbol |-> pw.symbol, data |-> pw.data,
                    live |-> <<>>]
       \/ /\ unsubscribe_proposal_all("p1")
          /\ pw' = [pc |-> "left", reason |-> "send"]
    /\ UNCHANGED <<storeVars, pbc>>
    /\ ProposalUnchanged

\* Lines 1033-1039: receive_text raises when the client goes; the finally.
proposal_close ==
    /\ pw.pc = "streaming"
    /\ unsubscribe_proposal_all("p1")
    /\ pw' = [pc |-> "left", reason |-> "closed"]
    /\ UNCHANGED <<storeVars, pbc>>
    /\ ProposalUnchanged

\* What the client has after a send to it: live is the "live_candle" it
\* got last.
AfterLive(w, failed) ==
    IF w.pc = "streaming" /\ ~failed /\ pbc.cur = "p1"
    THEN [w EXCEPT !.live = <<pbc.payload>>]
    ELSE w

\* binance_ws.py, lines 229-230: broadcast_candle returns, nobody being
\* subscribed on /ws/candles, and broadcast_candle_proposal is called.
ingest_publish ==
    /\ ing.pc = "broadcast"
    /\ broadcast_candle(ing.symbol, ing.interval, ing.candle)
    /\ bc'.pc = "idle"
    /\ broadcast_candle_proposal(ing.symbol, ing.interval, ing.candle)
    /\ ing' = IF pbc'.pc = "idle" THEN [pc |-> "recv"]
              ELSE [ing EXCEPT !.pc = "proposing"]
    /\ IF pbc'.pc = "idle" THEN NoteDone(ing) ELSE UNCHANGED lastIn
    /\ UNCHANGED <<storeVars, clock, heap, store_ref, held, lastMsg, upstream, shutdown,
                   lock, probe, pw>>

\* A send_text of broadcast_candle_proposal returns or raises.
ingest_proposal_send_done ==
    /\ ing.pc = "proposing"
    /\ \E failed \in BOOLEAN :
          /\ proposal_send_done(failed)
          /\ pw' = AfterLive(pw, failed)
    /\ ing' = IF pbc'.pc = "idle" THEN [pc |-> "recv"] ELSE ing
    /\ IF pbc'.pc = "idle" THEN NoteDone(ing) ELSE UNCHANGED lastIn
    /\ UNCHANGED <<storeVars, regVars, clock, heap, store_ref, held, lastMsg, upstream,
                   shutdown, lock, probe>>

NextProposal ==
    bootstrap_all \/ ws_connect \/ ws_connect_ok
    \/ FinalRecv \/ gap_bootstrap \/ gap_reread \/ gap_fetch
    \/ ingest_append_memory \/ ingest_publish \/ ingest_proposal_send_done
    \/ FinalTick
    \/ proposal_open \/ proposal_read \/ proposal_historical_sent \/ proposal_close

SpecProposal == InitPublish /\ [][NextProposal]_vars

\* The client has received candle, in its "historical" message or as its
\* latest "live_candle".
ClientHas(candle) ==
    \/ \E i \in 1..Len(pw.data) :
          pw.data[i].time = candle.time * 1000 /\ pw.data[i].close = candle.close
    \/ \E i \in 1..Len(pw.live) :
          pw.live[i].time = candle.time * 1000 /\ pw.live[i].close = candle.close

\* C39: when the client of /ws/{symbol} is streaming and the loop has
\* finished the update it took last, the client has the candle of that
\* update: it was in the "historical" message or it came as "live_candle".
C39_NoUpdateBetweenSnapshotAndStream ==
    (/\ pw.pc = "streaming"
     /\ ing.pc = "recv" /\ lastIn.op = "message" /\ lastIn.fate = "done")
       => ClientHas(TriggerCandle)

====
